---- MODULE Spec2Model ----
(***************************************************************************)
(* Model of the frame renderer of src/src/mol-gl/renderer.ts               *)
(* (Renderer.create and the object it returns: clear, render, setProps,    *)
(* setViewport, dispose).                                                  *)
(*                                                                         *)
(* The renderer talks to a graphics context.  The model keeps the values   *)
(* the renderer passes to that context (the GL state it asked for, the     *)
(* resources it created and destroyed) and, for the call in progress, the  *)
(* sequence of calls it issued (glLog).  Normalised floats are kept as     *)
(* numerators over 255, so 1.0 is 255.                                     *)
(***************************************************************************)
EXTENDS Integers, Sequences, FiniteSets, TLC

\* ------------------------------------------------------------------ bounds
MaxRenderables == 2   \* longest drawable list of a scene
MaxCoord == 1         \* viewport x ranges over 0..MaxCoord
MaxSize == 2          \* viewport width and height range over 1..MaxSize
MaxColor == 1         \* background colours are ColorOf(0..MaxColor)
MaxDepth == 2         \* fragment depths of drawables range over 1..MaxDepth
MaxProgram == 2       \* drawables use programs 1..MaxProgram
MaxClipObjects == 6   \* longest clip-object list passed to setProps

VARIABLES
    ext,                     \* ctx.extensions read at construction
    enableWboit,             \* let enableWboit
    viewport,                \* const viewport
    p,                       \* the merged props p
    bgColor,                 \* const bgColor (normalised vec3)
    clip,                    \* const clip: variant and the flat clip-object arrays
    wboitATexture,           \* let wboitATexture: Null or [width, height]
    wboitBTexture,           \* let wboitBTexture
    evaluateWboitRenderable, \* let evaluateWboitRenderable: exists or not
    wboitFramebuffers,       \* let wboitFramebuffers: sequence of framebuffer ids
    framebuffers,            \* live framebuffers of ctx.resources: id -> attachments
    state,                   \* the GL state the renderer asked for (ctx.state, gl)
    globalUniformsNeedUpdate,\* let globalUniformsNeedUpdate
    uRenderWboit,            \* globalUniforms.uRenderWboit
    renderables,             \* group.renderables, the scene handed to render
    call,                    \* the last call made on the renderer and its arguments
    glLog,                   \* the calls that call issued to the graphics context
    faults,                  \* what fails in the collaborators, and how (see Faults)
    thrown,                  \* the last call ended by an exception reaching its caller
    allocationFailed,        \* an allocation of a WBOIT resource has failed
    style,                   \* const style: the five lighting coefficients
    globalUniforms,          \* the values of the lighting, fog and clip cells of globalUniforms
    uniformUpdates,          \* the cells of globalUniforms the last setProps updated
    createdStyle             \* the object p.style held at construction, as it reads now

vars == <<ext, enableWboit, viewport, p, bgColor, clip, wboitATexture, wboitBTexture,
          evaluateWboitRenderable, wboitFramebuffers, framebuffers, state,
          globalUniformsNeedUpdate, uRenderWboit, renderables, call, glLog,
          faults, thrown, allocationFailed, style, globalUniforms, uniformUpdates,
          createdStyle>>

Null == [null |-> TRUE]

\* ------------------------------------------------------------------ values
\* Color(0x......) values used as background colours; 0 is the default 0x000000.
ColorOf(i) == i * 1056816
Colors == {ColorOf(i) : i \in 0..MaxColor}

\* Color.toVec3Normalized: (hex >> 16 & 255) / 255, (hex >> 8 & 255) / 255, (hex & 255) / 255
toVec3Normalized(hexColor) ==
    << (hexColor \div 65536) % 256, (hexColor \div 256) % 256, hexColor % 256 >>

\* GraphicsRenderVariant
Variants == {"color", "pickObject", "pickInstance", "pickGroup", "depth"}
\* variant[0] === 'p'
IsPick(variant) == variant \in {"pickObject", "pickInstance", "pickGroup"}

\* render targets a caller can pass: null (the default framebuffer) or a RenderTarget
RenderTargets == {"null", "target"}

\* one call on the graphics context: op, a name argument, a boolean argument,
\* numeric arguments, the index of the drawable whose renderObject issued it
\* (0 when render, clear or setViewport issued it itself), and the fields of the
\* GL state the call sets (a record, empty when it sets none: a draw, a clear)
GlCall(op, s, b, n, r, set) == [op |-> op, s |-> s, b |-> b, n |-> n, r |-> r, set |-> set]
NoChange == <<>>

\* the GL state st after a call that sets the fields of record set
Apply(st, set) == [f \in DOMAIN st |-> IF f \in DOMAIN set THEN set[f] ELSE st[f]]

\* ------------------------------------------------------------------ scene
\* A drawable (Renderable): r.state.{visible, pickable, opaque, writeDepth,
\* colorOnly}, the defines renderObject reads from r.values ("undef" when the
\* value cell is absent), the program r.getProgram returns, and the depth of the
\* fragment it produces at the observed pixel.  The three defines renderObject
\* writes start at the defaults of the renderer's props.
RenderableOf(vis, pick, opq, wd, co, mode, dbl, refl, flip, prog, z) ==
    [visible |-> vis, pickable |-> pick, opaque |-> opq, writeDepth |-> wd,
     colorOnly |-> co, dRenderMode |-> mode, dDoubleSided |-> dbl,
     hasReflection |-> refl, dFlipSided |-> flip, program |-> prog, depth |-> z,
     dClipObjectCount |-> 0, dClipVariant |-> "instance", dTransparencyVariant |-> "single"]

\* a mesh-like drawable with the given state flags, its own program and depth 1
Mesh(vis, pick, opq, wd, co) ==
    RenderableOf(vis, pick, opq, wd, co, "undef", "undef", FALSE, "undef", 1, 1)

\* all sequences over S of length at most n
RECURSIVE SeqsUpTo(_, _)
SeqsUpTo(S, n) ==
    IF n = 0 THEN {<<>>}
    ELSE LET shorter == SeqsUpTo(S, n - 1)
         IN shorter \cup {Append(s, x) : s \in {t \in shorter : Len(t) = n - 1}, x \in S}

\* r.getProgram(variant).id: one program per drawable program and variant
ProgramId(r, variant) == <<r.program, variant>>
NoProgram == <<0, "none">>

\* ------------------------------------------------------------------ graphics context
\* Framebuffer references: the default framebuffer, the caller's render target,
\* or one of the renderer's own framebuffers (by resource id).
FbDefault == [kind |-> "default", id |-> 0]
FbTarget == [kind |-> "target", id |-> 0]
FbWboit(id) == [kind |-> "wboit", id |-> id]
\* a change that binds the default framebuffer whatever the target
FbOfAlwaysDefault(renderTarget) == FbDefault

\* if (renderTarget) renderTarget.bind(); else gl.bindFramebuffer(gl.FRAMEBUFFER, null)
FbOf(renderTarget) == IF renderTarget = "null" THEN FbDefault ELSE FbTarget

\* The renderer's view of the context while a call runs: the GL state, the calls
\* issued so far, and the two closure variables renderObject reads and writes.
\* thrown: an exception is propagating, the rest of the call does not run.
Ctx(st, log, need, wboit) ==
    [state |-> st, log |-> log, need |-> need, wboit |-> wboit, thrown |-> FALSE]

\* a call that sets no field of the GL state
Issue(g, op, s, b, n, r) ==
    IF g.thrown THEN g
    ELSE [g EXCEPT !.log = Append(@, GlCall(op, s, b, n, r, NoChange))]
\* a call that sets field f of the GL state to v
IssueSet(g, op, s, b, n, r, f, v) ==
    IF g.thrown THEN g
    ELSE [g EXCEPT !.state[f] = v,
                   !.log = Append(@, GlCall(op, s, b, n, r, [x \in {f} |-> v]))]

\* state.enable(cap) / state.disable(cap)
Enable(g, cap, r) == IssueSet(g, "enable", cap, TRUE, <<>>, r, cap, TRUE)
Disable(g, cap, r) == IssueSet(g, "disable", cap, FALSE, <<>>, r, cap, FALSE)
\* state.depthMask(flag)
DepthMask(g, flag, r) == IssueSet(g, "depthMask", "", flag, <<>>, r, "depthMask", flag)
\* state.colorMask(true, true, true, true)
ColorMaskAll(g) == IssueSet(g, "colorMask", "", TRUE, <<>>, 0, "colorMask", TRUE)
\* state.frontFace(mode) / state.cullFace(mode)
FrontFace(g, mode, r) == IssueSet(g, "frontFace", mode, FALSE, <<>>, r, "frontFace", mode)
CullFace(g, mode, r) == IssueSet(g, "cullFace", mode, FALSE, <<>>, r, "cullFace", mode)
\* state.clearColor(r, g, b, a)
ClearColor(g, rgba) == IssueSet(g, "clearColor", "", FALSE, rgba, 0, "clearColor", rgba)
\* gl.clear(bits): "COLOR|DEPTH" or "COLOR"
Clear(g, bits) == Issue(g, "clear", bits, FALSE, <<>>, 0)
\* state.blendFuncSeparate(srcRGB, dstRGB, srcAlpha, dstAlpha)
BlendFuncSeparate(g, srcRGB, dstRGB, srcAlpha, dstAlpha) ==
    IssueSet(g, "blendFuncSeparate", "", FALSE, <<>>, 0,
             "blendFunc", <<srcRGB, dstRGB, srcAlpha, dstAlpha>>)
\* renderTarget.bind(), gl.bindFramebuffer(gl.FRAMEBUFFER, null), framebuffer.bind()
BindFramebuffer(g, fb) ==
    IssueSet(g, "bindFramebuffer", fb.kind, FALSE, <<fb.id>>, 0, "framebuffer", fb)
\* gl.viewport(x, y, w, h); gl.scissor(x, y, w, h)
ViewportScissor(g, vp) ==
    LET n == <<vp.x, vp.y, vp.width, vp.height>>
    IN IssueSet(IssueSet(g, "viewport", "", FALSE, n, 0, "viewport", vp),
                "scissor", "", FALSE, n, 0, "scissor", vp)
\* a change that leaves the flush out
FlushNothing(g) == g

\* gl.flush()
Flush(g) == Issue(g, "flush", "", FALSE, <<>>, 0)

\* ------------------------------------------------------------------ faults
\* What can fail in the collaborators the renderer calls: the programs (by the
\* drawable's program number) that cannot be obtained or used, and whether a
\* failing call of a collaborator throws or returns without effect.  The renderer
\* does not see which; both outcomes are followed.
Faults == [programs : SUBSET (1..MaxProgram), throws : BOOLEAN]
NoFaults == [programs |-> {}, throws |-> FALSE]
\* r.getProgram(variant) / program.use() of drawable r throws
ProgramThrows(r) == r.program \in faults.programs /\ faults.throws

\* ------------------------------------------------------------------ renderObject
\* a change that culls a direct-volume drawable by its own sidedness defines
SetDirectVolumeBySides(g, i, r) ==
    LET g1 == IF r.dDoubleSided = "true" THEN Disable(g, "CULL_FACE", i)
              ELSE Enable(g, "CULL_FACE", i)
        g2 == IF r.dFlipSided = "true"
              THEN CullFace(FrontFace(g1, "CW", i), "FRONT", i)
              ELSE CullFace(FrontFace(g1, "CCW", i), "BACK", i)
    IN IF r.dRenderMode = "volume" \/ ~ext.fragDepth
       THEN DepthMask(Disable(g2, "DEPTH_TEST", i), FALSE, i)
       ELSE DepthMask(Enable(g2, "DEPTH_TEST", i), r.writeDepth, i)

\* if (r.values.dRenderMode) { ... }: indicates direct-volume, always cull front
SetDirectVolume(g, i, r) ==
    LET g1 == CullFace(FrontFace(Enable(g, "CULL_FACE", i), "CW", i), "BACK", i)
    IN IF r.dRenderMode = "volume" \/ ~ext.fragDepth
       THEN DepthMask(Disable(g1, "DEPTH_TEST", i), FALSE, i)
       ELSE DepthMask(Enable(g1, "DEPTH_TEST", i), r.writeDepth, i)

\* a change that never lets a drawable write depth
SetCullAndDepthNoDepthWrite(g, i, r) ==
    DepthMask(CullFace(FrontFace(Disable(Enable(g, "DEPTH_TEST", i), "CULL_FACE", i),
                                 "CCW", i), "BACK", i), FALSE, i)

\* The face-culling and depth settings renderObject makes for drawable r
\* (index i), then r.render(variant, sharedTexturesList).
SetCullAndDepth(g, i, r) ==
    IF r.dRenderMode # "undef"
    THEN SetDirectVolume(g, i, r)
    ELSE LET g1 == Enable(g, "DEPTH_TEST", i)
             g2 == IF r.dDoubleSided # "undef"
                   THEN IF r.dDoubleSided = "true" \/ r.hasReflection
                        THEN Disable(g1, "CULL_FACE", i)
                        ELSE Enable(g1, "CULL_FACE", i)
                   ELSE Disable(g1, "CULL_FACE", i)
             g3 == IF r.dFlipSided = "true"
                   THEN CullFace(FrontFace(g2, "CW", i), "FRONT", i)
                   ELSE CullFace(FrontFace(g2, "CCW", i), "BACK", i)
         IN DepthMask(g3, r.writeDepth, i)

\* a change that drops the pickable test
SkippedIgnoringPickable(r, variant) == ~r.visible

\* the early return of renderObject
Skipped(r, variant) == ~r.visible \/ (~r.pickable /\ IsPick(variant))

\* a change that uploads the global uniforms once per call, whatever program is bound
UseProgramUploadOnce(g, i, r, variant) ==
    LET program == ProgramId(r, variant)
        g1 == IF g.state.currentProgramId # program
              THEN IssueSet(g, "use", variant, FALSE, <<r.program>>, i,
                            "currentProgramId", program)
              ELSE g
    IN IF g.thrown THEN g
       ELSE IF ProgramThrows(r)
       THEN [g EXCEPT !.thrown = TRUE]
       ELSE IF g1.need
       THEN Issue([g1 EXCEPT !.need = FALSE], "setUniforms", "", FALSE, <<g1.wboit>>, i)
       ELSE g1

\* program.use() when the bound program differs, then program.setUniforms when
\* the global uniforms are pending
UseProgram(g, i, r, variant) ==
    LET program == ProgramId(r, variant)
        g1 == IF g.state.currentProgramId # program
              THEN IssueSet([g EXCEPT !.need = TRUE], "use", variant, FALSE, <<r.program>>, i,
                            "currentProgramId", program)
              ELSE g
    IN IF g.thrown THEN g
       ELSE IF ProgramThrows(r)
       THEN \* nothing in renderObject or render catches it
            [g EXCEPT !.thrown = TRUE]
       ELSE IF g1.need
       THEN Issue([g1 EXCEPT !.need = FALSE], "setUniforms", "", FALSE, <<g1.wboit>>, i)
       ELSE g1

\* a change that tests the two clip defines only
DefinesNeedUpdateClipOnly(r) ==
    \/ r.dClipObjectCount # clip.count
    \/ r.dClipVariant # clip.variant

\* the defines of drawable r differ from the clip state or the props: the three
\* tests that set definesNeedUpdate
DefinesNeedUpdate(r) ==
    \/ r.dClipObjectCount # clip.count
    \/ r.dClipVariant # clip.variant
    \/ r.dTransparencyVariant # p.transparencyVariant

\* the ValueCell.update calls on the defines of r, then r.update()
UpdateDefines(g, i, r) ==
    IF DefinesNeedUpdate(r)
    THEN Issue(g, "update", clip.variant, FALSE, <<clip.count>>, i)
    ELSE g

\* drawable r after the define updates of renderObject
WithDefines(r) ==
    [r EXCEPT !.dClipObjectCount = clip.count, !.dClipVariant = clip.variant,
              !.dTransparencyVariant = p.transparencyVariant]

\* a change that goes on whatever the drawable's state
renderObjectAlways(g, i, r, variant) ==
    Issue(SetCullAndDepth(UseProgram(UpdateDefines(g, i, r), i, r, variant), i, r),
          "draw", variant, FALSE, <<>>, i)

renderObject(g, i, r, variant) ==
    IF Skipped(r, variant) THEN g
    ELSE Issue(SetCullAndDepth(UseProgram(UpdateDefines(g, i, r), i, r, variant), i, r),
               "draw", variant, FALSE, <<>>, i)

\* ------------------------------------------------------------------ render
\* a change that lets the second loop take every drawable that writes depth
InBatchByWriteDepth(r, batch) ==
    CASE batch = "opaque" -> r.opaque
      [] batch = "transparentWriteDepth" -> r.writeDepth
      [] batch = "transparentNoWriteDepth" -> ~r.opaque /\ ~r.writeDepth
      [] batch = "notColorOnly" -> ~r.colorOnly

\* the condition each loop of render puts on a drawable
InBatch(r, batch) ==
    CASE batch = "opaque" -> r.opaque
      [] batch = "transparentWriteDepth" -> ~r.opaque /\ r.writeDepth
      [] batch = "transparentNoWriteDepth" -> ~r.opaque /\ ~r.writeDepth
      [] batch = "notColorOnly" -> ~r.colorOnly

\* for (let i = 0, il = renderables.length; i < il; ++i) if (<batch>) renderObject(...)
RECURSIVE RenderLoop(_, _, _, _, _)
RenderLoop(g, rs, i, variant, batch) ==
    IF i > Len(rs) THEN g
    ELSE RenderLoop(IF InBatch(rs[i], batch) THEN renderObject(g, i, rs[i], variant) ELSE g,
                    rs, i + 1, variant, batch)

\* a change that runs the two transparent loops before the opaque loop
ThreeBatchesTransparentFirst(g, rs, variant) ==
    RenderLoop(RenderLoop(RenderLoop(g, rs, 1, variant, "transparentWriteDepth"),
                          rs, 1, variant, "transparentNoWriteDepth"),
               rs, 1, variant, "opaque")

\* the three loops every colour branch runs, in source order
ThreeBatches(g, rs, variant) ==
    RenderLoop(RenderLoop(RenderLoop(g, rs, 1, variant, "opaque"),
                          rs, 1, variant, "transparentWriteDepth"),
               rs, 1, variant, "transparentNoWriteDepth")

\* a change that marks the pass outside the sub-pass as an accumulation pass too
RenderColorWboitOpaquePassMarked(g, rs, variant) ==
    ThreeBatches([g EXCEPT !.wboit = 1, !.need = TRUE], rs, variant)

\* variant === 'color' && enableWboit && !renderTransparent
RenderColorWboitOpaquePass(g, rs, variant) == ThreeBatches(g, rs, variant)

\* a change that accumulates with the ordered alpha-blend factors
RenderColorWboitOrderedBlend(g, rs, variant, renderTarget) ==
    LET g1 == BindFramebuffer(g, FbWboit(wboitFramebuffers[1]))
        g2 == Clear(ClearColor(g1, <<0, 0, 0, 255>>), "COLOR")
        g3 == [g2 EXCEPT !.wboit = 1, !.need = TRUE]
        g4 == BlendFuncSeparate(Enable(Disable(g3, "DEPTH_TEST", 0), "BLEND", 0),
                                "SRC_ALPHA", "ONE_MINUS_SRC_ALPHA", "ONE", "ONE")
        g5 == ThreeBatches(g4, rs, variant)
        g6 == BindFramebuffer(g5, FbOf(renderTarget))
        g7 == Disable(Enable(BlendFuncSeparate(g6, "ONE_MINUS_SRC_ALPHA", "SRC_ALPHA", "ZERO", "ONE"),
                             "BLEND", 0), "DEPTH_TEST", 0)
    IN IF evaluateWboitRenderable THEN Issue(g7, "drawQuad", "", FALSE, <<>>, 0) ELSE g7

\* variant === 'color' && enableWboit && renderTransparent
RenderColorWboit(g, rs, variant, renderTarget) ==
    LET g1 == BindFramebuffer(g, FbWboit(wboitFramebuffers[1]))
        g2 == Clear(ClearColor(g1, <<0, 0, 0, 255>>), "COLOR")
        g3 == [g2 EXCEPT !.wboit = 1, !.need = TRUE]
        g4 == BlendFuncSeparate(Enable(Disable(g3, "DEPTH_TEST", 0), "BLEND", 0),
                                "ONE", "ONE", "ZERO", "ONE_MINUS_SRC_ALPHA")
        g5 == ThreeBatches(g4, rs, variant)
        g6 == BindFramebuffer(g5, FbOf(renderTarget))
        g7 == Disable(Enable(BlendFuncSeparate(g6, "ONE_MINUS_SRC_ALPHA", "SRC_ALPHA", "ZERO", "ONE"),
                             "BLEND", 0), "DEPTH_TEST", 0)
    IN IF evaluateWboitRenderable THEN Issue(g7, "drawQuad", "", FALSE, <<>>, 0) ELSE g7

\* variant === 'color' && !enableWboit
RenderColorBlended(g, rs, variant) ==
    LET g1 == RenderLoop(g, rs, 1, variant, "opaque")
        g2 == Enable(BlendFuncSeparate(g1, "SRC_ALPHA", "ONE_MINUS_SRC_ALPHA", "ONE", "ONE"),
                     "BLEND", 0)
    IN RenderLoop(RenderLoop(g2, rs, 1, variant, "transparentWriteDepth"),
                  rs, 1, variant, "transparentNoWriteDepth")

\* a change that draws in the transparent sub-pass too
RenderPickDepthInSubPass(g, rs, variant, renderTransparent) ==
    RenderLoop(g, rs, 1, variant, "notColorOnly")

\* picking & depth
RenderPickDepth(g, rs, variant, renderTransparent) ==
    IF ~renderTransparent THEN RenderLoop(g, rs, 1, variant, "notColorOnly") ELSE g

\* a change that clears to the background colour for every variant
RenderClearAlwaysBackground(g, variant, clear, transparentBackground) ==
    IF clear
    THEN Clear(ClearColor(DepthMask(g, TRUE, 0),
                          <<bgColor[1], bgColor[2], bgColor[3],
                            IF transparentBackground THEN 0 ELSE 255>>), "COLOR|DEPTH")
    ELSE g

\* if (clear) { ... }
RenderClear(g, variant, clear, transparentBackground) ==
    IF clear
    THEN LET g1 == DepthMask(g, TRUE, 0)
             g2 == IF variant = "color"
                   THEN ClearColor(g1, <<bgColor[1], bgColor[2], bgColor[3],
                                         IF transparentBackground THEN 0 ELSE 255>>)
                   ELSE ClearColor(g1, <<255, 255, 255, 255>>)
         IN Clear(g2, "COLOR|DEPTH")
    ELSE g

\* a change that takes the WBOIT branches without looking at enableWboit
RenderBranchesIgnoringEnableWboit(g, rs, variant, renderTarget, renderTransparent) ==
    IF variant = "color"
    THEN IF ~renderTransparent
         THEN RenderColorWboitOpaquePass(g, rs, variant)
         ELSE RenderColorWboit(g, rs, variant, renderTarget)
    ELSE RenderPickDepth(g, rs, variant, renderTransparent)

\* the draw branches of render
RenderBranches(g, rs, variant, renderTarget, renderTransparent) ==
    IF variant = "color"
    THEN IF enableWboit
         THEN IF ~renderTransparent
              THEN RenderColorWboitOpaquePass(g, rs, variant)
              ELSE RenderColorWboit(g, rs, variant, renderTarget)
         ELSE RenderColorBlended(g, rs, variant)
    ELSE RenderPickDepth(g, rs, variant, renderTransparent)

\* a change that leaves blending as the call before left it
RenderCtxKeepingBlend(st, rs, renderTarget, variant, clear, transparentBackground, renderTransparent) ==
    LET g0 == Ctx([st EXCEPT !.currentRenderItemId = -1], <<>>, TRUE, 0)
        g1 == Enable(ColorMaskAll(Enable(g0, "SCISSOR_TEST", 0)), "DEPTH_TEST", 0)
        g2 == ViewportScissor(BindFramebuffer(g1, FbOf(renderTarget)), viewport)
        g3 == RenderClear(g2, variant, clear, transparentBackground)
    IN Flush(RenderBranches(g3, rs, variant, renderTarget, renderTransparent))

\* The whole of render from GL state st on drawable list rs: uRenderWboit := 0,
\* globalUniformsNeedUpdate := true, the state reset, the bind, viewport and
\* scissor, the optional clear, the draw branches and the flush.
RenderCtx(st, rs, renderTarget, variant, clear, transparentBackground, renderTransparent) ==
    LET g0 == Ctx([st EXCEPT !.currentRenderItemId = -1], <<>>, TRUE, 0)
        g1 == Enable(ColorMaskAll(Disable(Enable(g0, "SCISSOR_TEST", 0), "BLEND", 0)),
                     "DEPTH_TEST", 0)
        g2 == ViewportScissor(BindFramebuffer(g1, FbOf(renderTarget)), viewport)
        g3 == RenderClear(g2, variant, clear, transparentBackground)
    IN Flush(RenderBranches(g3, rs, variant, renderTarget, renderTransparent))

\* the last call made on the renderer: its name and arguments
CallOf(op, renderTarget, variant, clear, transparentBackground, renderTransparent, n) ==
    [op |-> op, renderTarget |-> renderTarget, variant |-> variant, clear |-> clear,
     transparentBackground |-> transparentBackground,
     renderTransparent |-> renderTransparent, n |-> n]

\* the drawables after a call with log: those renderObject got past its early
\* return for have had their defines brought up to date
AfterRender(rs, log) ==
    [i \in 1..Len(rs) |->
        IF \E k \in 1..Len(log) : log[k].r = i /\ log[k].op = "update"
        THEN WithDefines(rs[i]) ELSE rs[i]]

Render(renderTarget, variant, clear, transparentBackground, renderTransparent) ==
    /\ \E g \in {RenderCtx(state, renderables, renderTarget, variant, clear,
                           transparentBackground, renderTransparent)} :
          /\ state' = g.state
          /\ glLog' = g.log
          /\ globalUniformsNeedUpdate' = g.need
          /\ uRenderWboit' = g.wboit
          /\ thrown' = g.thrown
          /\ renderables' = AfterRender(renderables, g.log)
    /\ call' = CallOf("render", renderTarget, variant, clear, transparentBackground,
                      renderTransparent, <<>>)
    /\ UNCHANGED <<createdStyle, ext, enableWboit, viewport, p, bgColor, clip, wboitATexture, wboitBTexture,
                   evaluateWboitRenderable, wboitFramebuffers, framebuffers,
                   faults, allocationFailed, style, globalUniforms>>
    /\ uniformUpdates' = {}

\* ------------------------------------------------------------------ resources
\* resources.framebuffer(): a new framebuffer with nothing attached, under the
\* smallest id no live framebuffer has
FreshId(fbs) == CHOOSE i \in 1..(Cardinality(DOMAIN fbs) + 1) :
                    /\ i \notin DOMAIN fbs
                    /\ \A j \in 1..(i - 1) : j \in DOMAIN fbs
NoAttachments == [color0 |-> "none", color1 |-> "none"]
CreateFramebuffer(fbs) ==
    [i \in DOMAIN fbs \cup {FreshId(fbs)} |-> IF i \in DOMAIN fbs THEN fbs[i] ELSE NoAttachments]
\* framebuffer.destroy()
DestroyFramebuffer(fbs, id) == [i \in DOMAIN fbs \ {id} |-> fbs[i]]
\* texture?.attachFramebuffer(framebuffer, attachment): nothing when the texture is null
AttachFramebuffer(fbs, texture, name, id, attachment) ==
    IF texture = Null THEN fbs ELSE [fbs EXCEPT ![id][attachment] = name]
\* a change that defines every texture square
DefineSquare(texture, width, height) ==
    IF texture = Null THEN Null ELSE [width |-> width, height |-> width]

\* texture?.define(width, height)
Define(texture, width, height) ==
    IF texture = Null THEN Null ELSE [width |-> width, height |-> height]

\* The framebuffers Renderer.create makes and what it attaches to them:
\* wboitFramebuffers and the live framebuffers of the context.
CreateWboitFramebuffers(drawBuffers, a, b) ==
    LET f1 == CreateFramebuffer(<<>>)
        id1 == FreshId(<<>>)
    IN IF drawBuffers
       THEN LET id2 == FreshId(f1)
                f2 == CreateFramebuffer(f1)
            IN [list |-> <<id1, id2>>,
                fbs |-> AttachFramebuffer(AttachFramebuffer(f2, a, "A", id1, "color0"),
                                          b, "B", id1, "color1")]
       ELSE LET id2 == FreshId(f1)
                f2 == CreateFramebuffer(f1)
                id3 == FreshId(f2)
                f3 == CreateFramebuffer(f2)
            IN [list |-> <<id1, id2, id3>>,
                fbs |-> AttachFramebuffer(AttachFramebuffer(f3, a, "A", id1, "color0"),
                                          b, "B", id2, "color0")]

\* The framebuffers setViewport destroys and makes when the viewport changed.
ResizeWboitFramebuffers(drawBuffers, list, fbs, a, b) ==
    IF drawBuffers
    THEN LET f0 == DestroyFramebuffer(fbs, list[1])
             id1 == FreshId(f0)
             f1 == CreateFramebuffer(f0)
         IN [list |-> <<id1>>,
             fbs |-> AttachFramebuffer(AttachFramebuffer(f1, a, "A", id1, "color0"),
                                       b, "B", id1, "color1")]
    ELSE LET f0 == DestroyFramebuffer(DestroyFramebuffer(fbs, list[1]), list[2])
             id1 == FreshId(f0)
             f1 == CreateFramebuffer(f0)
             id2 == FreshId(f1)
             f2 == CreateFramebuffer(f1)
         IN [list |-> <<id1, id2>>,
             fbs |-> AttachFramebuffer(AttachFramebuffer(f2, a, "A", id1, "color0"),
                                       b, "B", id2, "color0")]

\* ------------------------------------------------------------------ clip
\* One clip object of the props: type name, position, rotation axis and angle in
\* degrees, scale.  Two are used: one that looks like the defaults, one that
\* differs from them in every component.
ClipObjectOf(type, position, axis, angle, scale) ==
    [type |-> type, position |-> position, axis |-> axis, angle |-> angle, scale |-> scale]
PlaneObject == ClipObjectOf("plane", <<0, 0, 0>>, <<1, 0, 0>>, 0, <<1, 1, 1>>)
SphereObject == ClipObjectOf("sphere", <<1, 2, 3>>, <<1, 0, 0>>, 180, <<2, 2, 2>>)
ClipObjects == {PlaneObject, SphereObject}

\* props.clip: a variant and a list of clip objects, of any length up to MaxClipObjects
ClipProps == [variant : {"instance", "pixel"}, objects : SeqsUpTo(ClipObjects, MaxClipObjects)]
\* a clip of one sphere, tested per pixel
SphereClipProps == [variant |-> "pixel", objects |-> <<SphereObject>>]
\* the default of RendererParams.clip: variant 'instance', no object
DefaultClipProps == [variant |-> "instance", objects |-> <<>>]

\* Clipping.Type[name]: the number of a clip type (plane is the 1 the arrays are
\* filled with)
ClippingType(name) == CASE name = "none" -> 0 [] name = "plane" -> 1 [] name = "sphere" -> 2

\* Quat.setAxisAngle(q, axis, degToRad(angle)) for a unit axis and the angles 0 and
\* 180: (sin(a/2) * axis, cos(a/2))
SetAxisAngle(axis, angle) ==
    CASE angle = 0 -> <<0, 0, 0, 1>>
      [] angle = 180 -> <<axis[1], axis[2], axis[3], 0>>

\* array[index] = value on a JavaScript array (index from 0): a write one past
\* the end lengthens the array
WriteAt(array, index, value) ==
    IF index + 1 <= Len(array) THEN [array EXCEPT ![index + 1] = value]
    ELSE Append(array, value)
\* Vec3.toArray / Quat.toArray(v, out, offset)
RECURSIVE ToArray(_, _, _, _)
ToArray(v, out, offset, k) ==
    IF k > Len(v) THEN out
    ELSE ToArray(v, WriteAt(out, offset + k - 1, v[k]), offset, k + 1)

\* n copies of value: (new Array(n)).fill(value)
Filled(n, value) == [k \in 1..n |-> value]
\* the arrays getClip makes when it is given no clip to reuse
NewClipArrays ==
    [type |-> Filled(5, 1), position |-> Filled(5 * 3, 0),
     rotation |-> Filled(5 * 4, 0), scale |-> Filled(5 * 3, 1)]

\* the for loop of getClip from object i (from 0) on
RECURSIVE ClipLoop(_, _, _)
ClipLoop(arrays, objects, i) ==
    IF i >= Len(objects) THEN arrays
    ELSE LET o == objects[i + 1]
         IN ClipLoop([type |-> WriteAt(arrays.type, i, ClippingType(o.type)),
                      position |-> ToArray(o.position, arrays.position, i * 3, 1),
                      rotation |-> ToArray(SetAxisAngle(o.axis, o.angle),
                                           arrays.rotation, i * 4, 1),
                      scale |-> ToArray(o.scale, arrays.scale, i * 3, 1)],
                     objects, i + 1)

\* getClip(props, clip): the arrays of clip, reused in place, after the loop
getClip(props, arrays) ==
    LET written == ClipLoop(arrays, props.objects, 0)
    IN [variant |-> props.variant, count |-> Len(props.objects),
        type |-> written.type, position |-> written.position,
        rotation |-> written.rotation, scale |-> written.scale]

\* ------------------------------------------------------------------ style
\* The five lighting coefficients, in tenths (0.6 is 6, 1 is 10).
Coefficients(lightIntensity, ambientIntensity, metalness, roughness, reflectivity) ==
    [lightIntensity |-> lightIntensity, ambientIntensity |-> ambientIntensity,
     metalness |-> metalness, roughness |-> roughness, reflectivity |-> reflectivity]

\* the names of RendererParams.style
StyleNames == {"custom", "flat", "matte", "glossy", "metallic", "plastic"}
\* the params of the custom group: every coefficient at an end of its range 0..1
CustomParams ==
    [lightIntensity : {0, 10}, ambientIntensity : {0, 10}, metalness : {0, 10},
     roughness : {0, 10}, reflectivity : {0, 10}]
\* the params of a named group: PD.Group({})
NoParams == <<>>
\* props.style: { name, params }
StyleProps ==
    {[name |-> "custom", params |-> c] : c \in CustomParams}
        \cup {[name |-> n, params |-> NoParams] : n \in StyleNames \ {"custom"}}
\* the default of RendererParams.style
DefaultStyleProps == [name |-> "matte", params |-> NoParams]

\* a change that resolves custom to the matte coefficients
getStyleCustomAsMatte(props) ==
    CASE props.name = "custom" -> Coefficients(6, 4, 0, 10, 5)
      [] props.name = "flat" -> Coefficients(0, 10, 0, 4, 5)
      [] props.name = "matte" -> Coefficients(6, 4, 0, 10, 5)
      [] props.name = "glossy" -> Coefficients(6, 4, 0, 4, 5)
      [] props.name = "metallic" -> Coefficients(6, 4, 4, 6, 5)
      [] props.name = "plastic" -> Coefficients(6, 4, 0, 2, 5)

\* getStyle(props): the switch over props.name
getStyle(props) ==
    CASE props.name = "custom" -> props.params
      [] props.name = "flat" -> Coefficients(0, 10, 0, 4, 5)
      [] props.name = "matte" -> Coefficients(6, 4, 0, 10, 5)
      [] props.name = "glossy" -> Coefficients(6, 4, 0, 4, 5)
      [] props.name = "metallic" -> Coefficients(6, 4, 4, 6, 5)
      [] props.name = "plastic" -> Coefficients(6, 4, 0, 2, 5)

\* the cells of globalUniforms that carry the style and the clip objects
LightingUniforms ==
    {"uLightIntensity", "uAmbientIntensity", "uMetalness", "uRoughness", "uReflectivity"}
ClipUniforms ==
    {"uClipObjectPosition", "uClipObjectRotation", "uClipObjectScale", "uClipObjectType"}

\* ------------------------------------------------------------------ construction
\* ctx.extensions as Renderer.create reads them: present (TRUE) or null (FALSE)
Extensions == [textureFloat : BOOLEAN, colorBufferFloat : BOOLEAN, depthTexture : BOOLEAN,
               drawBuffers : BOOLEAN, fragDepth : BOOLEAN]

\* Viewport(): the zero rectangle
ZeroViewport == [x |-> 0, y |-> 0, width |-> 0, height |-> 0]

\* the GL state of a fresh context
InitialState ==
    [SCISSOR_TEST |-> FALSE, BLEND |-> FALSE, DEPTH_TEST |-> FALSE, CULL_FACE |-> FALSE,
     depthMask |-> TRUE, colorMask |-> TRUE, clearColor |-> <<0, 0, 0, 0>>,
     blendFunc |-> <<"ONE", "ZERO", "ONE", "ZERO">>, frontFace |-> "CCW", cullFace |-> "BACK",
     currentProgramId |-> NoProgram, currentRenderItemId |-> -1,
     framebuffer |-> FbDefault, viewport |-> ZeroViewport, scissor |-> ZeroViewport]

\* a change that forgets the depth-texture capability
EnableWboitWithoutDepthTexture(e) == e.textureFloat /\ e.colorBufferFloat

\* let enableWboit = textureFloat !== null && colorBufferFloat !== null && depthTexture !== null
EnableWboitOf(e) == e.textureFloat /\ e.colorBufferFloat /\ e.depthTexture

\* Renderer.create(ctx, props) with props that give the style styleProps and the
\* defaults otherwise, on extensions e, scene rs and collaborators failing as f
\* says; construction itself meets no failure
CreateWithStyle(e, rs, f, styleProps) ==
    LET wboit == EnableWboitOf(e)
        a == Define(IF wboit THEN [width |-> 0, height |-> 0] ELSE Null,
                    ZeroViewport.width, ZeroViewport.height)
        b == Define(IF wboit THEN [width |-> 0, height |-> 0] ELSE Null,
                    ZeroViewport.width, ZeroViewport.height)
        made == CreateWboitFramebuffers(e.drawBuffers, a, b)
    IN /\ ext = e
       /\ enableWboit = wboit
       /\ viewport = ZeroViewport
       /\ p = [backgroundColor |-> ColorOf(0), transparencyVariant |-> "single",
               clip |-> DefaultClipProps, style |-> styleProps]
       /\ style = getStyle(styleProps)
       /\ createdStyle = styleProps
       /\ globalUniforms =
             [uFogColor |-> toVec3Normalized(ColorOf(0)),
              uClipObjectType |-> NewClipArrays.type,
              uClipObjectPosition |-> NewClipArrays.position,
              uClipObjectRotation |-> NewClipArrays.rotation,
              uClipObjectScale |-> NewClipArrays.scale,
              uLightIntensity |-> getStyle(styleProps).lightIntensity,
              uAmbientIntensity |-> getStyle(styleProps).ambientIntensity,
              uMetalness |-> getStyle(styleProps).metalness,
              uRoughness |-> getStyle(styleProps).roughness,
              uReflectivity |-> getStyle(styleProps).reflectivity]
       /\ uniformUpdates = {}
       /\ bgColor = toVec3Normalized(ColorOf(0))
       /\ clip = getClip(DefaultClipProps, NewClipArrays)
       /\ wboitATexture = a
       /\ wboitBTexture = b
       /\ evaluateWboitRenderable = wboit
       /\ wboitFramebuffers = made.list
       /\ framebuffers = made.fbs
       /\ state = IF e.drawBuffers
                  THEN [InitialState EXCEPT !.framebuffer = FbWboit(made.list[1])]
                  ELSE InitialState
       /\ globalUniformsNeedUpdate = TRUE
       /\ uRenderWboit = 0
       /\ renderables = rs
       /\ call = CallOf("create", "null", "color", FALSE, FALSE, FALSE, <<>>)
       /\ glLog = <<>>
       /\ faults = f
       /\ thrown = FALSE
       /\ allocationFailed = FALSE

\* Renderer.create(ctx, props) with the default props
CreateWithFaults(e, rs, f) == CreateWithStyle(e, rs, f, DefaultStyleProps)

\* Renderer.create on collaborators that never fail
Create(e, rs) == CreateWithFaults(e, rs, NoFaults)

\* ------------------------------------------------------------------ clear, setProps, setViewport, dispose
\* a change that clears opaque whatever the caller asked for
DefaultClearColorOpaque(transparentBackground) == <<bgColor[1], bgColor[2], bgColor[3], 255>>

\* state.clearColor(bgColor[0], bgColor[1], bgColor[2], transparentBackground ? 0 : 1) of clear
DefaultClearColor(transparentBackground) ==
    <<bgColor[1], bgColor[2], bgColor[3], IF transparentBackground THEN 0 ELSE 255>>

\* the calls of clear: unbind, scissor test on, depth and colour masks on, clear
ClearCtx(st, transparentBackground) ==
    LET g0 == Ctx(st, <<>>, globalUniformsNeedUpdate, uRenderWboit)
        g1 == ColorMaskAll(DepthMask(Enable(BindFramebuffer(g0, FbDefault),
                                            "SCISSOR_TEST", 0), TRUE, 0))
    IN Clear(ClearColor(g1, DefaultClearColor(transparentBackground)), "COLOR|DEPTH")

ClearDefault(transparentBackground) ==
    /\ \E g \in {ClearCtx(state, transparentBackground)} :
          /\ state' = g.state
          /\ glLog' = g.log
    /\ call' = CallOf("clear", "null", "color", FALSE, transparentBackground, FALSE, <<>>)
    /\ thrown' = FALSE
    /\ UNCHANGED <<createdStyle, ext, enableWboit, viewport, p, bgColor, clip, wboitATexture, wboitBTexture,
                   evaluateWboitRenderable, wboitFramebuffers, framebuffers,
                   globalUniformsNeedUpdate, uRenderWboit, renderables,
                   faults, allocationFailed, style, globalUniforms>>
    /\ uniformUpdates' = {}

\* setProps({ backgroundColor })
SetProps(backgroundColor) ==
    /\ IF backgroundColor # p.backgroundColor
       THEN /\ p' = [p EXCEPT !.backgroundColor = backgroundColor]
            /\ bgColor' = toVec3Normalized(backgroundColor)
            /\ globalUniforms' = [globalUniforms EXCEPT
                                     !.uFogColor = toVec3Normalized(backgroundColor)]
            /\ uniformUpdates' = {"uFogColor"}
       ELSE /\ UNCHANGED <<p, bgColor, globalUniforms>>
            /\ uniformUpdates' = {}
    /\ call' = CallOf("setProps", "null", "color", FALSE, FALSE, FALSE, <<backgroundColor>>)
    /\ glLog' = <<>>
    /\ thrown' = FALSE
    /\ UNCHANGED <<createdStyle, ext, enableWboit, viewport, clip, wboitATexture, wboitBTexture,
                   evaluateWboitRenderable, wboitFramebuffers, framebuffers, state,
                   globalUniformsNeedUpdate, uRenderWboit, renderables,
                   faults, allocationFailed, style>>

\* setProps({ transparencyVariant })
SetPropsTransparencyVariant(transparencyVariant) ==
    /\ IF transparencyVariant # p.transparencyVariant
       THEN p' = [p EXCEPT !.transparencyVariant = transparencyVariant]
       ELSE UNCHANGED p
    /\ call' = CallOf("setProps", "null", "color", FALSE, FALSE, FALSE,
                      <<"transparencyVariant", transparencyVariant>>)
    /\ glLog' = <<>>
    /\ thrown' = FALSE
    /\ uniformUpdates' = {}
    /\ UNCHANGED <<createdStyle, ext, enableWboit, viewport, bgColor, clip, wboitATexture,
                   wboitBTexture, evaluateWboitRenderable, wboitFramebuffers, framebuffers,
                   state, globalUniformsNeedUpdate, uRenderWboit, renderables,
                   faults, allocationFailed, style, globalUniforms>>

\* a change that finds no two values equal
deepEqualNever(a, b) == FALSE

\* deepEqual(a, b): the same variant and the same objects, component by component
deepEqual(a, b) == a = b

\* setProps({ clip })
SetPropsClip(clipProps) ==
    /\ IF ~deepEqual(clipProps, p.clip)
       THEN /\ p' = [p EXCEPT !.clip = clipProps]
            /\ \E c \in {getClip(clipProps, [type |-> clip.type, position |-> clip.position,
                                              rotation |-> clip.rotation, scale |-> clip.scale])} :
                  /\ clip' = c
                  /\ globalUniforms' = [globalUniforms EXCEPT
                                           !.uClipObjectPosition = c.position,
                                           !.uClipObjectRotation = c.rotation,
                                           !.uClipObjectScale = c.scale,
                                           !.uClipObjectType = c.type]
            /\ uniformUpdates' = ClipUniforms
       ELSE /\ UNCHANGED <<p, clip, globalUniforms>>
            /\ uniformUpdates' = {}
    /\ call' = CallOf("setProps", "null", "color", FALSE, FALSE, FALSE, <<"clip", clipProps>>)
    /\ glLog' = <<>>
    /\ thrown' = FALSE
    /\ UNCHANGED <<createdStyle, ext, enableWboit, viewport, bgColor, wboitATexture, wboitBTexture,
                   evaluateWboitRenderable, wboitFramebuffers, framebuffers, state,
                   globalUniformsNeedUpdate, uRenderWboit, renderables,
                   faults, allocationFailed, style>>

\* ValueCell.updateIfChanged(cell, value): the cells among names whose value
\* differs from the one asked for
ChangedCells(cells, asked, names) == {n \in names : cells[n] # asked[n]}

\* const style = getStyle(p.style) is the params object of the style props s
\* itself: getStyle returns props.params for custom and a new object otherwise
StyleIsParamsOf(s) == s.name = "custom"

\* setProps({ style }): Object.assign writes the coefficients into the object
\* style refers to
SetPropsStyle(styleProps) ==
    /\ p' = [p EXCEPT !.style = styleProps]
    /\ \E s \in {getStyle(styleProps)} :
          LET asked == [uLightIntensity |-> s.lightIntensity,
                        uAmbientIntensity |-> s.ambientIntensity,
                        uMetalness |-> s.metalness,
                        uRoughness |-> s.roughness,
                        uReflectivity |-> s.reflectivity]
          IN /\ style' = [f \in DOMAIN style |-> s[f]]
             /\ createdStyle' = IF StyleIsParamsOf(createdStyle)
                                THEN [createdStyle EXCEPT !.params = [f \in DOMAIN style |-> s[f]]]
                                ELSE createdStyle
             /\ uniformUpdates' = ChangedCells(globalUniforms, asked, LightingUniforms)
             /\ globalUniforms' = [n \in DOMAIN globalUniforms |->
                                     IF n \in LightingUniforms THEN asked[n]
                                     ELSE globalUniforms[n]]
    /\ call' = CallOf("setProps", "null", "color", FALSE, FALSE, FALSE, <<"style", styleProps>>)
    /\ glLog' = <<>>
    /\ thrown' = FALSE
    /\ UNCHANGED <<ext, enableWboit, viewport, bgColor, clip, wboitATexture, wboitBTexture,
                   evaluateWboitRenderable, wboitFramebuffers, framebuffers, state,
                   globalUniformsNeedUpdate, uRenderWboit, renderables,
                   faults, allocationFailed>>

\* the resource calls of a viewport change, as setViewport issues them: the
\* texture defines, the framebuffer destroys and creations, and the bind of the
\* new first framebuffer when drawBuffers is present
ResizeCalls(g, a, b, old, made) ==
    LET g1 == IF a # Null THEN Issue(g, "define", "A", FALSE, <<a.width, a.height>>, 0) ELSE g
        g2 == IF b # Null THEN Issue(g1, "define", "B", FALSE, <<b.width, b.height>>, 0) ELSE g1
        g3 == Issue(g2, "destroyFramebuffer", "", FALSE, <<old[1]>>, 0)
        g4 == IF ext.drawBuffers THEN g3
              ELSE Issue(g3, "destroyFramebuffer", "", FALSE, <<old[2]>>, 0)
        g5 == Issue(g4, "createFramebuffer", "", FALSE, made.list, 0)
    IN IF ext.drawBuffers THEN BindFramebuffer(g5, FbWboit(made.list[1])) ELSE g5

\* a change that makes every call resize, whatever the rectangle
ViewportDiffersAlways(x, y, width, height) == TRUE

\* x !== viewport.x || y !== viewport.y || width !== viewport.width || height !== viewport.height
ViewportDiffers(x, y, width, height) ==
    x # viewport.x \/ y # viewport.y \/ width # viewport.width \/ height # viewport.height

\* what setViewport leaves behind: the viewport, the textures, the framebuffers
\* and the context after its calls
SetViewportResult(x, y, width, height) ==
    LET vp == [x |-> x, y |-> y, width |-> width, height |-> height]
        g == ViewportScissor(Ctx(state, <<>>, globalUniformsNeedUpdate, uRenderWboit), vp)
    IN IF ViewportDiffers(x, y, width, height)
       THEN LET a == Define(wboitATexture, width, height)
                b == Define(wboitBTexture, width, height)
                made == ResizeWboitFramebuffers(ext.drawBuffers, wboitFramebuffers,
                                                framebuffers, a, b)
            IN [viewport |-> vp, a |-> a, b |-> b, list |-> made.list, fbs |-> made.fbs,
                g |-> ResizeCalls(g, a, b, wboitFramebuffers, made)]
       ELSE [viewport |-> viewport, a |-> wboitATexture, b |-> wboitBTexture,
             list |-> wboitFramebuffers, fbs |-> framebuffers, g |-> g]

SetViewport(x, y, width, height) ==
    /\ \E res \in {SetViewportResult(x, y, width, height)} :
          /\ viewport' = res.viewport
          /\ wboitATexture' = res.a
          /\ wboitBTexture' = res.b
          /\ wboitFramebuffers' = res.list
          /\ framebuffers' = res.fbs
          /\ state' = res.g.state
          /\ glLog' = res.g.log
    /\ call' = CallOf("setViewport", "null", "color", FALSE, FALSE, FALSE, <<x, y, width, height>>)
    /\ thrown' = FALSE
    /\ UNCHANGED <<createdStyle, ext, enableWboit, p, bgColor, clip, evaluateWboitRenderable,
                   globalUniformsNeedUpdate, uRenderWboit, renderables,
                   faults, allocationFailed, style, globalUniforms>>
    /\ uniformUpdates' = {}

\* setViewport on a changed rectangle when the first allocation it makes, the
\* redefinition of the first WBOIT texture, fails.  The texture keeps its old
\* storage.  If the failure throws, nothing catches it: the viewport is already
\* stored, the rest of the resize does not run and the exception reaches the
\* caller.  If it returns without effect, the resize goes on as usual.  Nothing in
\* either case writes enableWboit.
SetViewportAllocationFails(x, y, width, height) ==
    /\ ViewportDiffers(x, y, width, height)
    /\ wboitATexture # Null
    /\ LET vp == [x |-> x, y |-> y, width |-> width, height |-> height]
           g == ViewportScissor(Ctx(state, <<>>, globalUniformsNeedUpdate, uRenderWboit), vp)
           b == Define(wboitBTexture, width, height)
           made == ResizeWboitFramebuffers(ext.drawBuffers, wboitFramebuffers,
                                           framebuffers, wboitATexture, b)
           asked == Define(wboitATexture, width, height)
       IN IF faults.throws
          THEN /\ state' = g.state
               /\ glLog' = g.log
               /\ thrown' = TRUE
               /\ UNCHANGED <<wboitBTexture, wboitFramebuffers, framebuffers>>
          ELSE /\ \E done \in {ResizeCalls(g, asked, b, wboitFramebuffers, made)} :
                     /\ state' = done.state
                     /\ glLog' = done.log
               /\ thrown' = FALSE
               /\ wboitBTexture' = b
               /\ wboitFramebuffers' = made.list
               /\ framebuffers' = made.fbs
    /\ viewport' = [x |-> x, y |-> y, width |-> width, height |-> height]
    /\ allocationFailed' = TRUE
    /\ call' = CallOf("setViewport", "null", "color", FALSE, FALSE, FALSE, <<x, y, width, height>>)
    /\ UNCHANGED <<createdStyle, ext, enableWboit, p, bgColor, clip, wboitATexture, evaluateWboitRenderable,
                   globalUniformsNeedUpdate, uRenderWboit, renderables, faults,
                   style, globalUniforms>>
    /\ uniformUpdates' = {}

\* dispose: () => { // TODO }: the body is empty, nothing of the renderer changes
Dispose ==
    /\ call' = CallOf("dispose", "null", "color", FALSE, FALSE, FALSE, <<>>)
    /\ glLog' = <<>>
    /\ thrown' = FALSE
    /\ UNCHANGED <<createdStyle, ext, enableWboit, viewport, p, bgColor, clip, wboitATexture, wboitBTexture,
                   evaluateWboitRenderable, wboitFramebuffers, framebuffers, state,
                   globalUniformsNeedUpdate, uRenderWboit, renderables,
                   faults, allocationFailed, style, globalUniforms>>
    /\ uniformUpdates' = {}

\* ------------------------------------------------------------------ specifications
\* drawables of the life-cycle specifications: visible, pickable meshes, one per batch
OpaqueMesh == Mesh(TRUE, TRUE, TRUE, TRUE, FALSE)
TransparentMesh == Mesh(TRUE, TRUE, FALSE, TRUE, FALSE)
TransparentNoDepthMesh == Mesh(TRUE, TRUE, FALSE, FALSE, FALSE)
LifecycleScene == <<TransparentNoDepthMesh, TransparentMesh, OpaqueMesh>>

\* The renderer over its life: constructed on any combination of the WBOIT
\* extensions, then any sequence of setViewport, render and dispose.
Init == \E e \in {x \in Extensions : x.fragDepth} : Create(e, LifecycleScene)

Next ==
    \/ \E x \in 0..MaxCoord, w \in 1..MaxSize, h \in 1..MaxSize : SetViewport(x, 0, w, h)
    \/ \E v \in {"color", "pickObject", "depth"}, rt \in BOOLEAN :
          Render("null", v, TRUE, FALSE, rt)
    \/ Dispose

Spec == Init /\ [][Next]_vars

\* the extensions with WBOIT wholly present or wholly absent
WboitOrNot ==
    {x \in Extensions : /\ x.fragDepth /\ x.drawBuffers
                        /\ x.textureFloat = x.colorBufferFloat
                        /\ x.colorBufferFloat = x.depthTexture}

\* The background colour: a renderer with or without WBOIT, then any sequence
\* of setProps({backgroundColor}), clear and render.
InitClear == \E e \in WboitOrNot : Create(e, LifecycleScene)

NextClear ==
    \/ \E c \in Colors : SetProps(c)
    \/ \E tb \in BOOLEAN : ClearDefault(tb)
    \/ \E t \in RenderTargets, v \in {"color", "pickObject", "depth"}, c \in BOOLEAN,
          tb \in BOOLEAN, rt \in BOOLEAN : Render(t, v, c, tb, rt)

SpecClear == InitClear /\ [][NextClear]_vars

\* Scenes: every combination of opaque and writeDepth, on a drawable that is
\* an ordinary one or is invisible, or not pickable, or colour-only.
SceneKinds ==
    {Mesh(f[1], f[2], o, wd, f[3]) :
        f \in {<<TRUE, TRUE, FALSE>>, <<FALSE, TRUE, FALSE>>, <<TRUE, FALSE, FALSE>>,
               <<TRUE, TRUE, TRUE>>},
        o \in BOOLEAN, wd \in BOOLEAN}
Scenes == SeqsUpTo(SceneKinds, MaxRenderables)

\* Render calls of every variant, sub-pass or not, on every scene.
InitScene == \E e \in WboitOrNot, rs \in Scenes : Create(e, rs)

NextScene ==
    \E v \in {"color", "pickObject", "depth"}, rt \in BOOLEAN : Render("null", v, TRUE, FALSE, rt)

SpecScene == InitScene /\ [][NextScene]_vars

\* Opaque scenes at one pixel: opaque meshes, visible or not, writing depth or
\* not, each with a fragment depth; rendered in the colour variant.
PixelKinds ==
    {RenderableOf(v, TRUE, TRUE, wd, FALSE, "undef", "undef", FALSE, "undef", 1, z) :
        v \in BOOLEAN, wd \in BOOLEAN, z \in 1..MaxDepth}

InitPixel ==
    \E e \in {x \in Extensions : /\ x.fragDepth
                                 /\ x.textureFloat = x.colorBufferFloat
                                 /\ x.colorBufferFloat = x.depthTexture},
       rs \in SeqsUpTo(PixelKinds, MaxRenderables) : Create(e, rs)

NextPixel == \E c \in BOOLEAN, rt \in BOOLEAN : Render("null", "color", c, FALSE, rt)

SpecPixel == InitPixel /\ [][NextPixel]_vars

\* Scenes at one pixel on a renderer with WBOIT: visible meshes, opaque or not,
\* writing depth or not, each at the nearest or the farthest depth; rendered in the
\* colour variant as transparent sub-pass, clearing or not, with either attachment layout.
OitKinds ==
    {RenderableOf(TRUE, TRUE, o, wd, FALSE, "undef", "undef", FALSE, "undef", 1, z) :
        o \in BOOLEAN, wd \in BOOLEAN, z \in {1, MaxDepth}}

InitOit ==
    \E e \in {x \in Extensions : /\ x.fragDepth /\ x.textureFloat
                                 /\ x.colorBufferFloat /\ x.depthTexture},
       rs \in SeqsUpTo(OitKinds, MaxRenderables) : Create(e, rs)

NextOit == \E c \in BOOLEAN : Render("null", "color", c, FALSE, TRUE)

SpecOit == InitOit /\ [][NextOit]_vars

\* Allocation failure: a renderer with OIT, with either attachment layout, whose
\* texture allocation may fail in a viewport change, by throwing or silently; then
\* any sequence of viewport changes, failing or not, and colour renders.
InitAlloc ==
    \E e \in {x \in Extensions : /\ x.fragDepth /\ x.textureFloat
                                 /\ x.colorBufferFloat /\ x.depthTexture},
       f \in {x \in Faults : x.programs = {}} : CreateWithFaults(e, LifecycleScene, f)

NextAlloc ==
    \/ \E x \in 0..MaxCoord, s \in 1..MaxSize : SetViewport(x, 0, s, s)
    \/ \E x \in 0..MaxCoord, s \in 1..MaxSize : SetViewportAllocationFails(x, 0, s, s)
    \/ \E rt \in BOOLEAN : Render("null", "color", TRUE, FALSE, rt)

SpecAlloc == InitAlloc /\ [][NextAlloc]_vars

\* Program failure: scenes of visible meshes, opaque or not, each with one of the
\* programs, on a renderer with or without OIT whose collaborators fail on some of
\* the programs, by throwing or silently; then any sequence of colour and depth
\* renders.
ProgramKinds ==
    {RenderableOf(TRUE, TRUE, o, TRUE, FALSE, "undef", "undef", FALSE, "undef", prog, 1) :
        o \in BOOLEAN, prog \in 1..MaxProgram}

InitProgram ==
    \E e \in WboitOrNot, rs \in SeqsUpTo(ProgramKinds, MaxRenderables), f \in Faults :
        CreateWithFaults(e, rs, f)

NextProgram ==
    \E v \in {"color", "depth"}, rt \in BOOLEAN : Render("null", v, TRUE, FALSE, rt)

SpecProgram == InitProgram /\ [][NextProgram]_vars

\* Clip state: a renderer, then any sequence of setProps({clip}) with lists of up
\* to MaxClipObjects clip objects.
InitClip == \E e \in {x \in WboitOrNot : ~x.textureFloat} : Create(e, LifecycleScene)

NextClip == \E c \in ClipProps : SetPropsClip(c)

SpecClip == InitClip /\ [][NextClip]_vars

\* Lighting style: a renderer, then any sequence of setProps({style}) over the
\* named styles and custom groups.
InitStyle == \E e \in {x \in WboitOrNot : ~x.textureFloat} : Create(e, LifecycleScene)

NextStyle == \E s \in StyleProps : SetPropsStyle(s)

SpecStyle == InitStyle /\ [][NextStyle]_vars

\* Transparency.Variant
TransparencyVariants == {"single", "multi"}

\* Skipped drawables: scenes of non-opaque drawables, visible or not, that differ
\* in program, winding and depth writing; then any sequence of colour and pick
\* renders, of setProps({clip}) between one sphere and no clip object and of
\* setProps({transparencyVariant}), on a renderer with or without OIT.
DefineKinds ==
    {RenderableOf(f[1], TRUE, FALSE, f[2], FALSE, "undef", "undef", FALSE, f[3], f[4], 1) :
        f \in {<<TRUE, TRUE, "undef", 1>>, <<FALSE, TRUE, "undef", 1>>,
               <<TRUE, FALSE, "true", MaxProgram>>, <<FALSE, FALSE, "true", MaxProgram>>}}

InitDefines == \E e \in WboitOrNot, rs \in SeqsUpTo(DefineKinds, MaxRenderables) : Create(e, rs)

NextDefines ==
    \/ \E c \in {DefaultClipProps, SphereClipProps} : SetPropsClip(c)
    \/ \E tv \in TransparencyVariants : SetPropsTransparencyVariant(tv)
    \/ \E v \in {"color", "pickObject"}, rt \in BOOLEAN : Render("null", v, TRUE, FALSE, rt)

SpecDefines == InitDefines /\ [][NextDefines]_vars

\* Direct-volume drawables: scenes of drawables with render mode 'volume' or
\* 'isosurface', writing depth or not, with or without sidedness defines, and of a
\* flip-sided mesh; rendered in the colour and depth variants on a context with
\* or without fragDepth and with or without OIT.
VolumeKinds ==
    {RenderableOf(TRUE, TRUE, FALSE, wd, FALSE, mode, sides, FALSE, sides, 1, 1) :
        wd \in BOOLEAN, mode \in {"volume", "isosurface"}, sides \in {"undef", "true"}}
        \cup {RenderableOf(TRUE, TRUE, FALSE, TRUE, FALSE, "undef", "true", FALSE, "true", 1, 1)}

InitVolume ==
    \E e \in {x \in Extensions : /\ x.drawBuffers
                                 /\ x.textureFloat = x.colorBufferFloat
                                 /\ x.colorBufferFloat = x.depthTexture},
       rs \in SeqsUpTo(VolumeKinds, MaxRenderables) : Create(e, rs)

NextVolume ==
    \E v \in {"color", "depth"}, rt \in BOOLEAN : Render("null", v, TRUE, FALSE, rt)

SpecVolume == InitVolume /\ [][NextVolume]_vars

\* The props: a renderer, then any sequence of setProps with a clip, a style or a
\* background colour, and colour renders.
ShortClipProps ==
    {DefaultClipProps, SphereClipProps,
     [variant |-> "instance", objects |-> <<PlaneObject>>],
     [variant |-> "pixel", objects |-> <<SphereObject, PlaneObject>>]}

InitProps == \E e \in WboitOrNot : Create(e, <<OpaqueMesh>>)

NextProps ==
    \/ \E c \in ShortClipProps : SetPropsClip(c)
    \/ \E s \in {x \in StyleProps : x.name \in {"flat", "matte"}} : SetPropsStyle(s)
    \/ \E c \in Colors : SetProps(c)
    \/ Render("null", "color", TRUE, FALSE, FALSE)

SpecProps == InitProps /\ [][NextProps]_vars

\* Custom style at construction: a renderer constructed with any style, custom
\* groups included, then any sequence of setProps({style}).
InitCustom ==
    \E e \in {x \in WboitOrNot : ~x.textureFloat}, s \in StyleProps :
        CreateWithStyle(e, LifecycleScene, NoFaults, s)

NextCustom == \E s \in StyleProps : SetPropsStyle(s)

SpecCustom == InitCustom /\ [][NextCustom]_vars

\* Uniform uploads: scenes of visible meshes, opaque or not, each with one of the
\* programs, on a renderer with or without OIT; then any sequence of colour, pick
\* and depth renders, sub-pass or not.
InitUniforms == \E e \in WboitOrNot, rs \in SeqsUpTo(ProgramKinds, MaxRenderables) : Create(e, rs)

NextUniforms ==
    \E v \in {"color", "pickObject", "depth"}, rt \in BOOLEAN : Render("null", v, TRUE, FALSE, rt)

SpecUniforms == InitUniforms /\ [][NextUniforms]_vars

\* ------------------------------------------------------------------ reading a call's log
\* the positions of glLog that hold a call named op
CallsOf(log, op) == {k \in 1..Len(log) : log[k].op = op}
\* the draw calls of drawables (not the resolve quad)
Draws(log) == CallsOf(log, "draw")
\* a framebuffer was destroyed or created, or a WBOIT texture redefined
ReallocationCalls(log) ==
    CallsOf(log, "destroyFramebuffer") \cup CallsOf(log, "createFramebuffer")
        \cup CallsOf(log, "define")
\* the marks of the WBOIT accumulate/resolve path: a renderer framebuffer bound,
\* uRenderWboit uploaded as 1, the resolve quad drawn
WboitPathCalls(log) ==
    {k \in 1..Len(log) :
        \/ log[k].op = "drawQuad"
        \/ log[k].op = "bindFramebuffer" /\ log[k].s = "wboit"
        \/ log[k].op = "setUniforms" /\ log[k].n = <<1>>}
\* blending was switched on with the ordered alpha-blend factors
OrderedBlendCalls(log) ==
    {k \in CallsOf(log, "enable") :
        /\ log[k].s = "BLEND"
        /\ \E j \in CallsOf(log, "blendFuncSeparate") :
              /\ j < k
              /\ log[j].set.blendFunc = <<"SRC_ALPHA", "ONE_MINUS_SRC_ALPHA", "ONE", "ONE">>}
\* the call itself has put field f of the GL state to v by position k of its log
\* (some call up to k sets f to v and none after it, up to k, sets f again)
EstablishedAt(log, k, f, v) ==
    \E j \in 1..k :
        /\ f \in DOMAIN log[j].set
        /\ log[j].set[f] = v
        /\ \A i \in (j + 1)..k : f \notin DOMAIN log[i].set
\* the normalised red, green and blue of Color c with alpha a
Rgba(c, a) == <<(c \div 65536) % 256, (c \div 256) % 256, c % 256, a>>
\* the drawable a draw call of the log draws, and the indices drawn
DrawnAt(log, k) == log[k].r
Drawn(log) == {log[k].r : k \in Draws(log)}
\* the batch of a drawable: 1 opaque, 2 transparent writing depth, 3 transparent not
Batch(r) == IF r.opaque THEN 1 ELSE IF r.writeDepth THEN 2 ELSE 3
AllCapabilities == ext.textureFloat /\ ext.colorBufferFloat /\ ext.depthTexture
LiveFramebufferCount == Cardinality(DOMAIN framebuffers)

\* ------------------------------------------------------------------ one pixel of the context
\* What the graphics context does with a call's log at one pixel that every
\* visible drawable covers (OpenGL ES 2.0, per-fragment operations): the depth
\* test is LESS against the depth buffer and passes always on a framebuffer
\* without depth attachment (the renderer's own framebuffers have colour
\* attachments only); depth is written when the test is enabled and the depth
\* mask is on; colour is replaced without blending, summed under (ONE, ONE) and
\* layered in draw order under any other factors.
\* A pixel: the fragment that last replaced it (0 the clear colour, -1 what was
\* there before the call), the layers blended over it in order, the fragments
\* summed into it.
Pixel(base, over, sum) == [base |-> base, over |-> over, sum |-> sum]
Before == Pixel(-1, <<>>, {})
Cleared == Pixel(0, <<>>, {})
Far == MaxDepth + 1

WritePixel(px, st, id) ==
    IF ~st.BLEND THEN Pixel(id, <<>>, {})
    ELSE IF st.blendFunc[1] = "ONE" /\ st.blendFunc[2] = "ONE"
         THEN [px EXCEPT !.sum = @ \cup {id}]
         ELSE [px EXCEPT !.over = Append(@, id)]

\* the textures a draw on the renderer's framebuffer id writes: both attachments
\* once drawBuffers selected them, the first attachment otherwise
WrittenTextures(id) ==
    IF id \notin DOMAIN framebuffers THEN {}
    ELSE (IF ext.drawBuffers
          THEN {framebuffers[id].color0, framebuffers[id].color1}
          ELSE {framebuffers[id].color0}) \ {"none"}

\* the buffers after one call ev of the log; ident gives the identity of the
\* drawable at each list position
PixelStep(acc, ev, rs, ident) ==
    LET st == Apply(acc.st, ev.set)
        fb == st.framebuffer
        own == fb.kind = "wboit"
        written == IF own THEN WrittenTextures(fb.id) ELSE {}
    IN CASE ev.op = "clear" ->
              IF own
              THEN [acc EXCEPT !.st = st,
                               !.A = IF "A" \in written THEN Cleared ELSE @,
                               !.B = IF "B" \in written THEN Cleared ELSE @]
              ELSE [acc EXCEPT !.st = st, !.target = Cleared,
                               !.depth = IF ev.s = "COLOR|DEPTH" /\ st.depthMask
                                         THEN Far ELSE @]
         [] ev.op = "draw" ->
              LET z == rs[ev.r].depth
                  id == ident[ev.r]
              IN IF own
                 THEN [acc EXCEPT !.st = st,
                                  !.A = IF "A" \in written THEN WritePixel(@, st, id) ELSE @,
                                  !.B = IF "B" \in written THEN WritePixel(@, st, id) ELSE @]
                 ELSE IF st.DEPTH_TEST /\ ~(z < acc.depth)
                      THEN [acc EXCEPT !.st = st]
                      ELSE [acc EXCEPT !.st = st, !.target = WritePixel(@, st, id),
                                       !.depth = IF st.DEPTH_TEST /\ st.depthMask
                                                 THEN z ELSE @]
         [] ev.op = "drawQuad" ->
              [acc EXCEPT !.st = st, !.resolved = <<acc.A, acc.B>>]
         [] OTHER -> [acc EXCEPT !.st = st]

RECURSIVE PixelReplay(_, _, _, _, _)
PixelReplay(acc, log, k, rs, ident) ==
    IF k > Len(log) THEN acc
    ELSE PixelReplay(PixelStep(acc, log[k], rs, ident), log, k + 1, rs, ident)

\* A GL state of which nothing is known but that no program of the scene is
\* bound: reading a field of it that the call has not set first is an error.
UnknownState ==
    [f \in DOMAIN InitialState |-> IF f = "currentProgramId" THEN NoProgram ELSE "unknown"]

\* the fields of the GL state the per-fragment operations read, all unknown
PixelState ==
    [f \in {"BLEND", "DEPTH_TEST", "depthMask", "blendFunc", "framebuffer"} |-> "unknown"]

\* the pixel after the calls of log, on buffers holding depth d0: the target's
\* colour and depth, both accumulation textures, and what the resolve quad read
Image(log, rs, ident, d0) ==
    LET acc == PixelReplay([st |-> PixelState, target |-> Before, depth |-> d0,
                            A |-> Before, B |-> Before, resolved |-> <<>>],
                           log, 1, rs, ident)
    IN [target |-> acc.target, depth |-> acc.depth, A |-> acc.A, B |-> acc.B,
        resolved |-> acc.resolved]

\* the list rs presented in the order pi, a permutation of its positions
Permuted(rs, pi) == [k \in 1..Len(rs) |-> rs[pi[k]]]
Identity(rs) == [k \in 1..Len(rs) |-> k]

\* the render call just made gives, on every permutation of the scene, the same
\* pixel and the same set of drawn drawables
SameForEveryOrder ==
    LET ofCall == [d0 \in 1..Far |-> Image(glLog, renderables, Identity(renderables), d0)]
    IN \A pi \in Permutations(1..Len(renderables)) :
          LET q == Permuted(renderables, pi)
              log == RenderCtx(UnknownState, q, call.renderTarget, call.variant, call.clear,
                               call.transparentBackground, call.renderTransparent).log
          IN /\ {pi[log[k].r] : k \in Draws(log)} = Drawn(glLog)
             /\ \A d0 \in 1..Far : Image(log, q, pi, d0) = ofCall[d0]

AllOpaque(rs) == \A i \in 1..Len(rs) : rs[i].opaque
\* every drawable writes depth, is no direct-volume drawable, and no two have
\* the same depth at the pixel
DepthResolves(rs) ==
    /\ \A i \in 1..Len(rs) : rs[i].writeDepth /\ rs[i].dRenderMode = "undef"
    /\ \A i \in 1..Len(rs), j \in 1..Len(rs) : i # j => rs[i].depth # rs[j].depth

\* ------------------------------------------------------------------ claims

\* C2: setViewport called with exactly the current viewport destroys and creates
\* no framebuffer, does not redefine the WBOIT textures and leaves the count of
\* live framebuffers unchanged, after any sequence of setViewport and render calls.
C2_SameViewportReallocatesNothing ==
    [][(/\ call'.op = "setViewport"
        /\ call'.n = <<viewport.x, viewport.y, viewport.width, viewport.height>>)
       => /\ framebuffers' = framebuffers
          /\ wboitFramebuffers' = wboitFramebuffers
          /\ wboitATexture' = wboitATexture
          /\ wboitBTexture' = wboitBTexture
          /\ ReallocationCalls(glLog') = {}
          /\ LiveFramebufferCount' = LiveFramebufferCount]_vars

\* C2 witness: a setViewport that took the unchanged branch on a viewport an
\* earlier setViewport had set
C2_Witness ==
    /\ call.op = "setViewport"
    /\ viewport.width > 0
    /\ ReallocationCalls(glLog) = {}

\* C7: the two WBOIT textures exist exactly when float-texture, float-color-buffer
\* and depth-texture were all present at construction; with one missing the
\* renderer is constructed all the same, holds neither texture, and that stays so
\* over setViewport and render.
C7_TexturesIffCapabilities ==
    /\ (wboitATexture # Null) = AllCapabilities
    /\ (wboitBTexture # Null) = AllCapabilities
    /\ evaluateWboitRenderable = AllCapabilities

\* C7 witness: a capability is missing, the viewport has been set and a render
\* has run, and there is no texture
C7_Witness ==
    /\ ~AllCapabilities
    /\ viewport.width > 0
    /\ call.op = "render"
    /\ wboitATexture = Null /\ wboitBTexture = Null

\* C8: a render takes the WBOIT accumulate/resolve path only when all three
\* capabilities were present at construction; enableWboit keeps the value
\* construction gave it; and with a capability missing every colour render,
\* transparent sub-pass or not, switches on ordered alpha blending.
C8_WboitOnlyWithCapabilities ==
    /\ enableWboit = AllCapabilities
    /\ call.op = "render" =>
          /\ WboitPathCalls(glLog) # {} => AllCapabilities
          /\ (~AllCapabilities /\ call.variant = "color") =>
                /\ OrderedBlendCalls(glLog) # {}
                /\ WboitPathCalls(glLog) = {}

\* C8 witness: a colour render requested as transparent sub-pass on a renderer
\* without the capabilities, after a viewport change
C8_Witness ==
    /\ ~AllCapabilities
    /\ viewport.width > 0
    /\ call.op = "render" /\ call.variant = "color" /\ call.renderTransparent
    /\ Draws(glLog) # {}

\* C9: after dispose every GPU resource the renderer allocated has been destroyed:
\* the WBOIT textures, every WBOIT framebuffer, the resolve renderable.
C9_DisposeReleasesEverything ==
    call.op = "dispose" =>
        /\ wboitATexture = Null /\ wboitBTexture = Null
        /\ DOMAIN framebuffers = {}
        /\ ~evaluateWboitRenderable

\* C9 witness: dispose has returned on a renderer that had resized its WBOIT
\* textures and framebuffers, and they are all still live
C9_Witness ==
    /\ call.op = "dispose"
    /\ AllCapabilities /\ viewport.width > 0
    /\ wboitATexture # Null /\ wboitBTexture # Null
    /\ \A k \in 1..Len(wboitFramebuffers) : wboitFramebuffers[k] \in DOMAIN framebuffers

\* C5: clear(tb) clears colour and depth of the default framebuffer to the most
\* recently set background colour, alpha 0 when tb and 1 otherwise, with the depth
\* mask and all colour-mask channels enabled, whatever ran in between.
C5_ClearUsesBackgroundColor ==
    call.op = "clear" =>
        /\ Len(glLog) > 0
        /\ glLog[Len(glLog)].op = "clear" /\ glLog[Len(glLog)].s = "COLOR|DEPTH"
        /\ CallsOf(glLog, "clear") = {Len(glLog)}
        /\ EstablishedAt(glLog, Len(glLog), "framebuffer", FbDefault)
        /\ EstablishedAt(glLog, Len(glLog), "depthMask", TRUE)
        /\ EstablishedAt(glLog, Len(glLog), "colorMask", TRUE)
        /\ EstablishedAt(glLog, Len(glLog), "clearColor",
                         Rgba(p.backgroundColor, IF call.transparentBackground THEN 0 ELSE 255))

\* C5 witness: clear(true) after setProps changed the background colour
C5_Witness ==
    /\ call.op = "clear" /\ call.transparentBackground
    /\ p.backgroundColor # ColorOf(0)
    /\ state.clearColor = Rgba(p.backgroundColor, 0)

\* C6: render with clear=true clears colour and depth of the bound target before
\* any drawable is drawn, to the background colour with alpha 0 or 1 for the colour
\* variant and to white for the pick and depth variants; with clear=false no clear
\* is issued while the target is bound.
C6_RenderClearsTargetFirst ==
    call.op = "render" =>
        LET target == FbOf(call.renderTarget)
            onTarget == {k \in CallsOf(glLog, "clear") :
                            EstablishedAt(glLog, k, "framebuffer", target)}
        IN IF call.clear
           THEN \E k \in onTarget :
                   /\ onTarget = {k}
                   /\ glLog[k].s = "COLOR|DEPTH"
                   /\ \A d \in Draws(glLog) \cup CallsOf(glLog, "drawQuad") : k < d
                   /\ EstablishedAt(glLog, k, "depthMask", TRUE)
                   /\ EstablishedAt(glLog, k, "colorMask", TRUE)
                   /\ EstablishedAt(glLog, k, "clearColor",
                         IF call.variant = "color"
                         THEN Rgba(p.backgroundColor,
                                   IF call.transparentBackground THEN 0 ELSE 255)
                         ELSE <<255, 255, 255, 255>>)
           ELSE onTarget = {}

\* C6 witness: a pick render with clear=true that drew, on a renderer whose
\* background colour is not white
C6_Witness ==
    /\ call.op = "render" /\ call.clear /\ call.variant = "pickObject"
    /\ p.backgroundColor # ColorOf(0)
    /\ Draws(glLog) # {}

\* C1: in a colour render the draws come in three consecutive batches, opaque,
\* then non-opaque with writeDepth, then non-opaque without, each in scene-list
\* order; no draw of a later batch precedes one of an earlier batch, OIT or not,
\* transparent sub-pass or not.
C1_ThreeBatchesInOrder ==
    (call.op = "render" /\ call.variant = "color") =>
        \A a \in Draws(glLog), b \in Draws(glLog) :
            a < b =>
                LET i == DrawnAt(glLog, a)
                    j == DrawnAt(glLog, b)
                IN \/ Batch(renderables[i]) < Batch(renderables[j])
                   \/ Batch(renderables[i]) = Batch(renderables[j]) /\ i < j

\* C1 witness: a WBOIT transparent sub-pass that drew an opaque drawable listed
\* after a non-opaque one
C1_Witness ==
    /\ call.op = "render" /\ call.variant = "color"
    /\ enableWboit /\ call.renderTransparent
    /\ Len(renderables) >= 2
    /\ ~renderables[1].opaque /\ renderables[2].opaque
    /\ Drawn(glLog) = {1, 2}

\* C3: a pick render issues no call at all for a drawable that is not pickable;
\* in the colour and depth variants whether a drawable is drawn does not depend
\* on its pickable flag.
C3_UnpickableUntouchedInPick ==
    call.op = "render" =>
        IF IsPick(call.variant)
        THEN \A k \in 1..Len(glLog) :
                glLog[k].r # 0 => renderables[glLog[k].r].pickable
        ELSE Drawn(glLog) =
                {i \in 1..Len(renderables) :
                    /\ renderables[i].visible
                    /\ call.variant = "depth" =>
                          ~renderables[i].colorOnly /\ ~call.renderTransparent}

\* C3 witness: a pick render that drew on a scene holding a visible drawable that
\* is not pickable
C3_Witness ==
    /\ call.op = "render" /\ IsPick(call.variant)
    /\ Draws(glLog) # {}
    /\ \E i \in 1..Len(renderables) :
          renderables[i].visible /\ ~renderables[i].pickable /\ ~renderables[i].colorOnly

\* C4: a pick or depth render draws only when the transparent sub-pass flag is
\* false and never draws a colour-only drawable; with the flag true it issues no
\* call for any drawable and ends with the flush.
C4_PickDepthOnlyOutsideSubPass ==
    (call.op = "render" /\ call.variant # "color") =>
        /\ \A d \in Draws(glLog) :
              ~call.renderTransparent /\ ~renderables[DrawnAt(glLog, d)].colorOnly
        /\ call.renderTransparent =>
              /\ \A k \in 1..Len(glLog) : glLog[k].r = 0
              /\ glLog[Len(glLog)].op = "flush"

\* C4 witness: a depth render outside the sub-pass that drew one drawable and
\* left a visible colour-only one out
C4_Witness ==
    /\ call.op = "render" /\ call.variant = "depth" /\ ~call.renderTransparent
    /\ Draws(glLog) # {}
    /\ \E i \in 1..Len(renderables) :
          renderables[i].visible /\ renderables[i].colorOnly /\ i \notin Drawn(glLog)

\* C10 as stated: for every scene of opaque drawables only, a colour render gives
\* the same pixel (the winner under depth testing) and the same set of drawn
\* drawables for every permutation of the drawable list.
C10_OpaqueOrderIndependent ==
    (call.op = "render" /\ call.variant = "color" /\ AllOpaque(renderables))
        => SameForEveryOrder

\* C10 on the scenes where the depth buffer decides: the same, for scenes of
\* opaque drawables that all write depth, are no direct-volume drawables and have
\* pairwise different depths at the pixel.
OpaqueOrderIndependentWhenDepthResolves ==
    (/\ call.op = "render" /\ call.variant = "color"
     /\ AllOpaque(renderables) /\ DepthResolves(renderables))
        => SameForEveryOrder

\* C10 witness: a colour render of two opaque drawables at different depths, the
\* nearer one listed first and not writing depth, whose pixel changes when the list
\* is reversed
C10_Witness ==
    /\ call.op = "render" /\ call.variant = "color" /\ call.clear
    /\ ~enableWboit
    /\ Len(renderables) = 2 /\ AllOpaque(renderables)
    /\ renderables[1].visible /\ renderables[2].visible
    /\ ~renderables[1].writeDepth /\ renderables[2].writeDepth
    /\ renderables[1].depth < renderables[2].depth
    /\ Drawn(glLog) = {1, 2}
    /\ ~SameForEveryOrder

\* the pixel the render call just made leaves, on buffers holding depth d0
ImageOfCall(d0) == Image(glLog, renderables, Identity(renderables), d0)
HasTransparent(rs) == \E i \in 1..Len(rs) : ~rs[i].opaque

\* C11: on a renderer with OIT, a colour render that takes the accumulate/resolve
\* path on a scene holding transparent drawables leaves the same accumulation
\* textures, the same resolve input and the same target for every permutation of
\* the drawable list.
C11_OitOrderIndependent ==
    (/\ call.op = "render" /\ call.variant = "color"
     /\ enableWboit /\ call.renderTransparent /\ HasTransparent(renderables))
        => SameForEveryOrder

\* C11 witness: a transparent sub-pass that summed two transparent drawables into
\* the first accumulation texture and resolved it
C11_Witness ==
    /\ call.op = "render" /\ call.variant = "color"
    /\ enableWboit /\ call.renderTransparent
    /\ Len(renderables) = 2
    /\ ~renderables[1].opaque /\ ~renderables[2].opaque
    /\ renderables[1].depth # renderables[2].depth
    /\ ImageOfCall(Far).A.sum = {1, 2}
    /\ ImageOfCall(Far).resolved # <<>>

\* the draws of the log that drew a drawable of the scene satisfying opaque = o
DrawsOf(log, rs, o) == {k \in Draws(log) : rs[log[k].r].opaque = o}
\* a framebuffer of the renderer is the one bound at position k of the log
OwnFramebufferAt(log, k) ==
    \E id \in DOMAIN framebuffers : EstablishedAt(log, k, "framebuffer", FbWboit(id))

\* C12: in a colour render with OIT enabled and the transparent sub-pass requested,
\* every opaque drawable is drawn while the requested target is bound, every
\* non-opaque drawable while a framebuffer of the renderer is bound, and the resolve
\* quad is drawn while the requested target is bound.
C12_OpaqueIntoTargetInSubPass ==
    (/\ call.op = "render" /\ call.variant = "color"
     /\ enableWboit /\ call.renderTransparent) =>
        /\ \A k \in DrawsOf(glLog, renderables, TRUE) :
              EstablishedAt(glLog, k, "framebuffer", FbOf(call.renderTarget))
        /\ \A k \in DrawsOf(glLog, renderables, FALSE) : OwnFramebufferAt(glLog, k)
        /\ \A k \in CallsOf(glLog, "drawQuad") :
              EstablishedAt(glLog, k, "framebuffer", FbOf(call.renderTarget))

\* C12 witness: a transparent sub-pass on a renderer with OIT that drew an opaque
\* drawable while the renderer's own framebuffer was bound, and summed it into the
\* first accumulation texture
C12_Witness ==
    /\ call.op = "render" /\ call.variant = "color"
    /\ enableWboit /\ call.renderTransparent /\ call.clear
    /\ Len(renderables) = 1 /\ renderables[1].opaque
    /\ \E k \in DrawsOf(glLog, renderables, TRUE) : OwnFramebufferAt(glLog, k)
    /\ ImageOfCall(Far).A.sum = {1}
    /\ ImageOfCall(Far).target = Cleared

\* the blend factors the renderer passes
BlendFactors == {"ZERO", "ONE", "SRC_ALPHA", "ONE_MINUS_SRC_ALPHA"}
\* blending is on with colour factors src, dst at position k of the log
BlendedAt(log, k, src, dst) ==
    /\ EstablishedAt(log, k, "BLEND", TRUE)
    /\ \E sa \in BlendFactors, da \in BlendFactors :
          EstablishedAt(log, k, "blendFunc", <<src, dst, sa, da>>)

\* C13: in a colour render where OIT is unavailable or the transparent sub-pass is
\* not requested, every non-opaque drawable is drawn with blending on and factors
\* SRC_ALPHA, ONE_MINUS_SRC_ALPHA, every opaque drawable with blending off, and
\* every framebuffer bound during the call is the requested target.
C13_OrderedBlendOutsideOitSubPass ==
    (/\ call.op = "render" /\ call.variant = "color"
     /\ (~enableWboit \/ ~call.renderTransparent)) =>
        /\ \A k \in DrawsOf(glLog, renderables, FALSE) :
              BlendedAt(glLog, k, "SRC_ALPHA", "ONE_MINUS_SRC_ALPHA")
        /\ \A k \in DrawsOf(glLog, renderables, TRUE) :
              EstablishedAt(glLog, k, "BLEND", FALSE)
        /\ \A k \in CallsOf(glLog, "bindFramebuffer") :
              glLog[k].set.framebuffer = FbOf(call.renderTarget)

\* C13 witness: a colour render outside the sub-pass, on a renderer with OIT, that
\* drew a non-opaque drawable with blending off
C13_Witness ==
    /\ call.op = "render" /\ call.variant = "color"
    /\ enableWboit /\ ~call.renderTransparent
    /\ Len(renderables) = 1 /\ ~renderables[1].opaque
    /\ \E k \in DrawsOf(glLog, renderables, FALSE) : EstablishedAt(glLog, k, "BLEND", FALSE)

\* C13 where it holds: without OIT the same is true of every colour render
OrderedBlendWithoutOit ==
    (call.op = "render" /\ call.variant = "color" /\ ~enableWboit) =>
        /\ \A k \in DrawsOf(glLog, renderables, FALSE) :
              BlendedAt(glLog, k, "SRC_ALPHA", "ONE_MINUS_SRC_ALPHA")
        /\ \A k \in DrawsOf(glLog, renderables, TRUE) :
              EstablishedAt(glLog, k, "BLEND", FALSE)
        /\ \A k \in CallsOf(glLog, "bindFramebuffer") :
              glLog[k].set.framebuffer = FbOf(call.renderTarget)

\* texture tex is cleared to (0, 0, 0, 1) by a clear of the log that comes before
\* every draw: a colour clear with all colour channels writable, issued while a
\* framebuffer of the renderer that writes tex is bound
ClearedBeforeDraws(log, tex) ==
    \E k \in CallsOf(log, "clear") :
        /\ \A d \in Draws(log) : k < d
        /\ EstablishedAt(log, k, "clearColor", <<0, 0, 0, 255>>)
        /\ EstablishedAt(log, k, "colorMask", TRUE)
        /\ \E id \in DOMAIN framebuffers :
              /\ EstablishedAt(log, k, "framebuffer", FbWboit(id))
              /\ tex \in WrittenTextures(id)

\* C14: every WBOIT accumulation pass clears both accumulation textures to
\* (0, 0, 0, 1) before its first accumulation draw, with one framebuffer carrying
\* both textures and with two framebuffers carrying one each.
C14_BothAccumulationTexturesCleared ==
    (/\ call.op = "render" /\ call.variant = "color"
     /\ enableWboit /\ call.renderTransparent) =>
        /\ ClearedBeforeDraws(glLog, "A")
        /\ ClearedBeforeDraws(glLog, "B")

\* C14 witness: an accumulation pass without multi-attachment support that cleared
\* the first texture, drew into it, and left the second texture as it was
C14_Witness ==
    /\ call.op = "render" /\ call.variant = "color"
    /\ enableWboit /\ call.renderTransparent
    /\ ~ext.drawBuffers
    /\ Draws(glLog) # {}
    /\ ClearedBeforeDraws(glLog, "A")
    /\ ImageOfCall(Far).B = Before

\* C14 where it holds: with multi-attachment support both textures are cleared
BothClearedWithDrawBuffers ==
    (/\ call.op = "render" /\ call.variant = "color"
     /\ enableWboit /\ call.renderTransparent /\ ext.drawBuffers) =>
        /\ ClearedBeforeDraws(glLog, "A")
        /\ ClearedBeforeDraws(glLog, "B")

\* the number of framebuffers the layout needs: one carrying both textures with
\* multi-attachment support, two carrying one each without
LayoutFramebufferCount == IF ext.drawBuffers THEN 1 ELSE 2
\* the attachments the layout gives the k-th framebuffer when the textures exist
LayoutAttachments(k) ==
    IF ext.drawBuffers THEN [color0 |-> "A", color1 |-> "B"]
    ELSE IF k = 1 THEN [color0 |-> "A", color1 |-> "none"]
         ELSE [color0 |-> "B", color1 |-> "none"]

\* C15: after construction and any sequence of setViewport calls the renderer
\* references exactly the framebuffers of its layout, all live, with the textures
\* attached as the layout says when they exist, and no other framebuffer it created
\* is live.
C15_ExactlyTheLayoutFramebuffersLive ==
    /\ Len(wboitFramebuffers) = LayoutFramebufferCount
    /\ \A k \in 1..Len(wboitFramebuffers) :
          /\ wboitFramebuffers[k] \in DOMAIN framebuffers
          /\ enableWboit => framebuffers[wboitFramebuffers[k]] = LayoutAttachments(k)
    /\ DOMAIN framebuffers = {wboitFramebuffers[k] : k \in 1..Len(wboitFramebuffers)}
    /\ LiveFramebufferCount <= LayoutFramebufferCount

\* C15 witness: after a viewport change on a renderer with OIT and multi-attachment
\* support, a framebuffer made at construction is live, unreferenced and carries
\* nothing
C15_Witness ==
    /\ call.op = "setViewport" /\ ReallocationCalls(glLog) # {}
    /\ enableWboit /\ ext.drawBuffers
    /\ Len(wboitFramebuffers) = 1
    /\ \E id \in DOMAIN framebuffers :
          /\ id # wboitFramebuffers[1]
          /\ framebuffers[id] = NoAttachments
    /\ LiveFramebufferCount = 2

\* C15 without the leak: the framebuffers the renderer references after a resize
\* are live and carry the textures as the layout says
ReferencedFramebuffersFollowLayout ==
    (call.op = "setViewport" /\ ReallocationCalls(glLog) # {}) =>
        /\ Len(wboitFramebuffers) = LayoutFramebufferCount
        /\ \A k \in 1..Len(wboitFramebuffers) :
              /\ wboitFramebuffers[k] \in DOMAIN framebuffers
              /\ enableWboit => framebuffers[wboitFramebuffers[k]] = LayoutAttachments(k)

\* C16: a WBOIT accumulation pass sums every drawable it draws into both
\* accumulation textures, with one framebuffer carrying both textures and with two
\* framebuffers carrying one each.
C16_BothTexturesAccumulateInBothLayouts ==
    (/\ call.op = "render" /\ call.variant = "color"
     /\ enableWboit /\ call.renderTransparent) =>
        /\ ImageOfCall(Far).A.sum = Drawn(glLog)
        /\ ImageOfCall(Far).B.sum = Drawn(glLog)

\* C16 witness: an accumulation pass without multi-attachment support that summed
\* two drawables into the first texture and nothing into the second
C16_Witness ==
    /\ call.op = "render" /\ call.variant = "color"
    /\ enableWboit /\ call.renderTransparent
    /\ ~ext.drawBuffers
    /\ Drawn(glLog) = {1, 2}
    /\ ImageOfCall(Far).A.sum = {1, 2}
    /\ ImageOfCall(Far).B.sum = {}

\* C16 where it holds: with multi-attachment support both textures receive every
\* drawable the pass draws
BothTexturesAccumulateWithDrawBuffers ==
    (/\ call.op = "render" /\ call.variant = "color"
     /\ enableWboit /\ call.renderTransparent /\ ext.drawBuffers) =>
        /\ ImageOfCall(Far).A.sum = Drawn(glLog)
        /\ ImageOfCall(Far).B.sum = Drawn(glLog)

\* C17: once an allocation of a WBOIT texture has failed, OIT is disabled for the
\* rest of the renderer's life, the failing call returned normally, and every later
\* colour render switches on ordered blending and stays off the WBOIT path.
C17_AllocationFailureDisablesOit ==
    allocationFailed =>
        /\ ~thrown
        /\ ~enableWboit
        /\ (call.op = "render" /\ call.variant = "color") =>
              /\ WboitPathCalls(glLog) = {}
              /\ OrderedBlendCalls(glLog) # {}

\* C17 witness: a colour render after a failed texture allocation that bound the
\* accumulation framebuffer and drew the resolve quad
C17_Witness ==
    /\ allocationFailed /\ enableWboit
    /\ call.op = "render" /\ call.variant = "color" /\ call.renderTransparent
    /\ \E k \in WboitPathCalls(glLog) : glLog[k].op = "drawQuad"
    /\ OrderedBlendCalls(glLog) = {}

\* the drawables a render call with these arguments draws when no program fails
DrawnWithoutFaults(rs, variant, renderTransparent) ==
    {i \in 1..Len(rs) :
        /\ rs[i].visible
        /\ IsPick(variant) => rs[i].pickable
        /\ variant # "color" => ~rs[i].colorOnly /\ ~renderTransparent}
\* the drawables whose program cannot be obtained or used
Failing(rs) == {i \in 1..Len(rs) : rs[i].program \in faults.programs}

\* C18: when the program of a drawable fails during render, no exception leaves
\* render, nothing is issued for the failing drawable, every other drawable the
\* call would draw is still drawn, and the call ends with the flush.
C18_ProgramFailureSkipsDrawable ==
    call.op = "render" =>
        /\ ~thrown
        /\ \A k \in 1..Len(glLog) : glLog[k].r \notin Failing(renderables)
        /\ Drawn(glLog) = DrawnWithoutFaults(renderables, call.variant, call.renderTransparent)
                             \ Failing(renderables)
        /\ Len(glLog) > 0 /\ glLog[Len(glLog)].op = "flush"

\* C18 witness: a colour render whose first drawable has a failing program that
\* throws: the exception reached the caller, the second drawable was not drawn and
\* no flush was issued
C18_Witness ==
    /\ call.op = "render" /\ call.variant = "color"
    /\ thrown
    /\ Len(renderables) = 2
    /\ renderables[1].opaque /\ renderables[2].opaque
    /\ Failing(renderables) = {1}
    /\ Draws(glLog) = {}
    /\ CallsOf(glLog, "flush") = {}

\* C18 without failures: with every program usable the call draws what it should
\* and ends with the flush
NoProgramFailureDrawsAll ==
    (call.op = "render" /\ Failing(renderables) = {}) =>
        /\ ~thrown
        /\ Drawn(glLog) = DrawnWithoutFaults(renderables, call.variant, call.renderTransparent)
        /\ glLog[Len(glLog)].op = "flush"

\* slot i (from 0) of the clip arrays: its type, position, rotation and scale
ClipSlot(i) ==
    [type |-> clip.type[i + 1],
     position |-> <<clip.position[3 * i + 1], clip.position[3 * i + 2], clip.position[3 * i + 3]>>,
     rotation |-> <<clip.rotation[4 * i + 1], clip.rotation[4 * i + 2],
                    clip.rotation[4 * i + 3], clip.rotation[4 * i + 4]>>,
     scale |-> <<clip.scale[3 * i + 1], clip.scale[3 * i + 2], clip.scale[3 * i + 3]>>]

\* C19: after construction and after any sequence of setProps calls that set clip,
\* every slot of the clip arrays from the configured count on holds type plane,
\* scale (1, 1, 1) and the identity quaternion.
C19_UnusedClipSlotsNeutral ==
    \A i \in 0..4 :
        (i >= clip.count /\ i < Len(clip.type)) =>
            /\ ClipSlot(i).type = ClippingType("plane")
            /\ ClipSlot(i).scale = <<1, 1, 1>>
            /\ ClipSlot(i).rotation = <<0, 0, 0, 1>>

\* C19 witness: clip was set to two objects and then to one; the second slot still
\* holds the sphere that was configured before
C19_Witness ==
    /\ call.op = "setProps"
    /\ clip.count = 1
    /\ ClipSlot(1).type = ClippingType("sphere")
    /\ ClipSlot(1).scale = <<2, 2, 2>>
    /\ ClipSlot(1).rotation = <<1, 0, 0, 0>>

\* C19 for the slots in use: every slot below the count holds the object
\* configured for it
UsedClipSlotsHoldObjects ==
    \A i \in 0..(clip.count - 1) :
        LET o == p.clip.objects[i + 1]
        IN ClipSlot(i) = [type |-> ClippingType(o.type), position |-> o.position,
                          rotation |-> SetAxisAngle(o.axis, o.angle), scale |-> o.scale]

\* C20: after construction and after any setProps call the clip object count is
\* at most 5 and the type, position, rotation and scale arrays have lengths 5, 15,
\* 20 and 15.
C20_ClipStateAtMostFive ==
    /\ clip.count <= 5
    /\ Len(clip.type) = 5
    /\ Len(clip.position) = 15
    /\ Len(clip.rotation) = 20
    /\ Len(clip.scale) = 15

\* C20 witness: setProps was given six clip objects; the count is six and every
\* array has grown by one slot
C20_Witness ==
    /\ call.op = "setProps"
    /\ Len(p.clip.objects) = 6
    /\ clip.count = 6
    /\ Len(clip.type) = 6 /\ Len(clip.position) = 18
    /\ Len(clip.rotation) = 24 /\ Len(clip.scale) = 18

\* C20 for callers that keep to five: with at most five objects passed in every
\* call so far the count and the lengths are as claimed
ClipStateFixedUpToFive ==
    Len(clip.type) = 5 =>
        (Len(p.clip.objects) <= 5 =>
            /\ clip.count <= 5
            /\ Len(clip.position) = 15 /\ Len(clip.rotation) = 20 /\ Len(clip.scale) = 15)

\* the last call was setProps({ style }) / setProps({ clip }), and what it passed
IsSetPropsOf(c, key) == c.op = "setProps" /\ Len(c.n) = 2 /\ c.n[1] = key
\* the five lighting cells of globalUniforms as coefficients
LightingOfUniforms ==
    Coefficients(globalUniforms.uLightIntensity, globalUniforms.uAmbientIntensity,
                 globalUniforms.uMetalness, globalUniforms.uRoughness,
                 globalUniforms.uReflectivity)
\* the coefficients of the named styles
NamedStyle(name) ==
    CASE name = "flat" -> Coefficients(0, 10, 0, 4, 5)
      [] name = "matte" -> Coefficients(6, 4, 0, 10, 5)
      [] name = "glossy" -> Coefficients(6, 4, 0, 4, 5)
      [] name = "metallic" -> Coefficients(6, 4, 4, 6, 5)
      [] name = "plastic" -> Coefficients(6, 4, 0, 2, 5)

\* C21: resolving a style is defined for each of custom, flat, matte, glossy,
\* metallic and plastic; a named style gives its fixed five coefficients and
\* custom gives the coefficients supplied; after setProps({style: s}) the five
\* lighting uniforms hold the coefficients of s.
C21_StyleResolvedIntoUniforms ==
    /\ \A s \in StyleProps :
          /\ s.name \in StyleNames
          /\ DOMAIN getStyle(s) = DOMAIN Coefficients(0, 0, 0, 0, 0)
          /\ getStyle(s) = IF s.name = "custom" THEN s.params ELSE NamedStyle(s.name)
    /\ \A n \in StyleNames : \E s \in StyleProps : s.name = n
    /\ IsSetPropsOf(call, "style") =>
          /\ p.style = call.n[2]
          /\ LightingOfUniforms =
                (IF call.n[2].name = "custom" THEN call.n[2].params
                 ELSE NamedStyle(call.n[2].name))
          /\ style = LightingOfUniforms

\* C21 witness: a custom style was set after a named one and the uniforms hold
\* its coefficients, which are those of no named style
C21_Witness ==
    /\ IsSetPropsOf(call, "style")
    /\ call.n[2].name = "custom"
    /\ LightingOfUniforms = call.n[2].params
    /\ \A n \in StyleNames \ {"custom"} : LightingOfUniforms # NamedStyle(n)
    /\ uniformUpdates # {}

\* a framebuffer was destroyed or created, or a texture redefined, by the step
Reallocates ==
    \/ ReallocationCalls(glLog') # {}
    \/ framebuffers' # framebuffers
    \/ wboitFramebuffers' # wboitFramebuffers

\* C22: setViewport redefines the accumulation textures and rebuilds the WBOIT
\* framebuffers when, and only when, the width or the height changes; a call that
\* changes only the x/y offset destroys and creates no framebuffer.
C22_ReallocatesIffSizeChanges ==
    [][call'.op = "setViewport" =>
          (Reallocates <=> (call'.n[3] # viewport.width \/ call'.n[4] # viewport.height))]_vars

\* C22 witness: a setViewport to a non-zero x offset has destroyed and created
\* framebuffers
C22_Witness ==
    /\ call.op = "setViewport"
    /\ call.n[1] # 0
    /\ viewport.x = call.n[1]
    /\ CallsOf(glLog, "destroyFramebuffer") # {}
    /\ CallsOf(glLog, "createFramebuffer") # {}

\* C22 as the code has it: setViewport reallocates exactly when any of x, y,
\* width and height differs from the current viewport
ReallocatesIffRectangleChanges ==
    [][call'.op = "setViewport" =>
          (Reallocates <=> call'.n # <<viewport.x, viewport.y, viewport.width, viewport.height>>)]_vars

\* C23: whenever the WBOIT textures exist, both have the width and height of the
\* current viewport, from construction on and after any sequence of setViewport
\* calls.
C23_TexturesSizedToViewport ==
    (wboitATexture # Null \/ wboitBTexture # Null) =>
        /\ wboitATexture = [width |-> viewport.width, height |-> viewport.height]
        /\ wboitBTexture = wboitATexture

\* C23 witness: the textures exist and a setViewport has given the viewport a
\* width and a height that differ
C23_Witness ==
    /\ wboitATexture # Null /\ wboitBTexture # Null
    /\ call.op = "setViewport"
    /\ viewport.width # viewport.height
    /\ wboitATexture.width = viewport.width /\ wboitBTexture.height = viewport.height

\* the draws of an accumulation pass: the drawable draws of a colour render with
\* OIT enabled and the transparent sub-pass requested
AccumulationDraws ==
    IF call.op = "render" /\ call.variant = "color" /\ enableWboit /\ call.renderTransparent
    THEN Draws(glLog) ELSE {}

\* C24: at every draw call of a WBOIT accumulation pass depth testing is disabled
\* and blending is enabled with colour factors ONE, ONE.
C24_AccumulationDrawsUntestedAdditive ==
    \A k \in AccumulationDraws :
        /\ EstablishedAt(glLog, k, "DEPTH_TEST", FALSE)
        /\ BlendedAt(glLog, k, "ONE", "ONE")

\* C24 witness: an accumulation pass drew a non-opaque drawable into the renderer's
\* framebuffer with depth testing enabled
C24_Witness ==
    /\ Len(renderables) = 1 /\ ~renderables[1].opaque
    /\ \E k \in AccumulationDraws :
          /\ OwnFramebufferAt(glLog, k)
          /\ EstablishedAt(glLog, k, "DEPTH_TEST", TRUE)
          /\ BlendedAt(glLog, k, "ONE", "ONE")

\* C24, the blending half: every accumulation draw is made with blending enabled
\* and colour factors ONE, ONE, and the pass starts with depth testing disabled
AccumulationDrawsAdditive ==
    /\ \A k \in AccumulationDraws : BlendedAt(glLog, k, "ONE", "ONE")
    /\ AccumulationDraws # {} =>
          \E j \in CallsOf(glLog, "disable") :
              /\ glLog[j].s = "DEPTH_TEST"
              /\ \A k \in AccumulationDraws : j < k

\* the last call was a colour render with OIT enabled and the transparent sub-pass
\* requested
IsOitSubPass ==
    call.op = "render" /\ call.variant = "color" /\ enableWboit /\ call.renderTransparent

\* C25: a WBOIT transparent sub-pass draws exactly one resolve quad, after the last
\* accumulation draw, with the requested target (the default framebuffer for a
\* null target) bound again after that draw, blending enabled with colour factors
\* ONE_MINUS_SRC_ALPHA, SRC_ALPHA and depth testing disabled.
C25_OneResolveQuadOnTarget ==
    IsOitSubPass =>
        /\ Cardinality(CallsOf(glLog, "drawQuad")) = 1
        /\ \A q \in CallsOf(glLog, "drawQuad") :
              /\ \A d \in Draws(glLog) : d < q
              /\ \E b \in CallsOf(glLog, "bindFramebuffer") :
                    /\ b < q
                    /\ \A d \in Draws(glLog) : d < b
                    /\ glLog[b].set.framebuffer =
                          (IF call.renderTarget = "null" THEN FbDefault ELSE FbTarget)
                    /\ \A j \in (b + 1)..q : glLog[j].op # "bindFramebuffer"
              /\ BlendedAt(glLog, q, "ONE_MINUS_SRC_ALPHA", "SRC_ALPHA")
              /\ EstablishedAt(glLog, q, "DEPTH_TEST", FALSE)

\* C25 witness: a sub-pass into a render target that accumulated three drawables
\* and then drew the quad
C25_Witness ==
    /\ IsOitSubPass
    /\ call.renderTarget = "target"
    /\ Cardinality(Draws(glLog)) = 3
    /\ \E q \in CallsOf(glLog, "drawQuad") :
          /\ EstablishedAt(glLog, q, "framebuffer", FbTarget)
          /\ \A d \in Draws(glLog) : d < q /\ OwnFramebufferAt(glLog, d)

\* the visible drawables of rs, in order, and the place of drawable i among them
VisibleOnly(rs) == SelectSeq(rs, LAMBDA r : r.visible)
VisibleRank(rs, i) == Cardinality({j \in 1..i : rs[j].visible})
\* the log with every drawable index replaced by its place among the visible
AmongVisible(log, rs) ==
    [k \in 1..Len(log) |->
        [log[k] EXCEPT !.r = IF @ = 0 THEN 0 ELSE VisibleRank(rs, @)]]
\* the same render call made again from the present state, on drawable list rs
Again(rs) ==
    RenderCtx(state, rs, call.renderTarget, call.variant, call.clear,
              call.transparentBackground, call.renderTransparent)

\* C26: a drawable with visible = false is skipped entirely.  A render issues no
\* call for it: no draw, no state setting, no program use, no uniform upload, no
\* define update; its defines stay as they were made; and a render of the scene
\* issues the calls, and leaves the GL state and the pending-upload flag, that a
\* render of the scene without its invisible drawables does.
C26_InvisibleSkippedEntirely ==
    /\ \A i \in 1..Len(renderables) :
          ~renderables[i].visible =>
              /\ \A k \in 1..Len(glLog) : glLog[k].r # i
              /\ renderables[i].dClipObjectCount = 0
              /\ renderables[i].dClipVariant = "instance"
    /\ call.op = "render" =>
          LET full == Again(renderables)
              without == Again(VisibleOnly(renderables))
          IN /\ AmongVisible(full.log, renderables) = without.log
             /\ full.state = without.state
             /\ full.need = without.need
             /\ full.wboit = without.wboit

\* C26 witness: a render, after the clip changed, of an invisible drawable followed
\* by a visible one: the visible one was updated and drawn, the invisible one has
\* the defines it was made with, and it would have changed winding and program
C26_Witness ==
    /\ call.op = "render" /\ call.variant = "color"
    /\ clip.count = 1
    /\ Len(renderables) = 2
    /\ ~renderables[1].visible /\ renderables[1].dFlipSided = "true"
    /\ renderables[1].program # renderables[2].program
    /\ renderables[1].dClipObjectCount = 0
    /\ renderables[2].visible /\ renderables[2].dFlipSided = "undef"
    /\ renderables[2].dClipObjectCount = 1
    /\ \E k \in Draws(glLog) : glLog[k].r = 2
    /\ \E k \in CallsOf(glLog, "update") : glLog[k].r = 2

\* the calls of the log that enable blending
BlendEnables(log) == {k \in CallsOf(log, "enable") : log[k].s = "BLEND"}
\* at every draw of a drawable without render mode the depth mask is the
\* drawable's writeDepth, and depth testing is enabled outside the OIT sub-pass
DepthMaskFollowsWriteDepth ==
    \A k \in Draws(glLog) :
        LET r == renderables[glLog[k].r]
        IN r.dRenderMode = "undef" =>
              /\ EstablishedAt(glLog, k, "depthMask", r.writeDepth)
              /\ ~IsOitSubPass => EstablishedAt(glLog, k, "DEPTH_TEST", TRUE)

\* C27: in every render, each drawn drawable without render mode is drawn with the
\* depth mask equal to its writeDepth flag, and with depth testing enabled outside
\* the OIT sub-pass; so a drawable with writeDepth = false is never drawn with depth
\* writes on, and every opaque drawable of the call is drawn before the call first
\* enables blending.
C27_DepthMaskAndOpaqueBeforeBlend ==
    call.op = "render" =>
        /\ DepthMaskFollowsWriteDepth
        /\ \A k \in DrawsOf(glLog, renderables, TRUE), b \in BlendEnables(glLog) : k < b

\* C27 witness: an OIT sub-pass enabled blending and then drew an opaque drawable,
\* with the depth mask the drawable asked for
C27_Witness ==
    /\ IsOitSubPass
    /\ Len(renderables) = 1 /\ renderables[1].opaque /\ ~renderables[1].writeDepth
    /\ \E k \in DrawsOf(glLog, renderables, TRUE) :
          /\ \E b \in BlendEnables(glLog) : b < k
          /\ EstablishedAt(glLog, k, "BLEND", TRUE)
          /\ EstablishedAt(glLog, k, "depthMask", FALSE)

\* C27 outside the OIT sub-pass: the depth mask follows writeDepth at every draw of
\* every render, and in a render that is no OIT sub-pass every opaque drawable is
\* drawn before blending is first enabled
OpaqueBeforeBlendOutsideOitSubPass ==
    call.op = "render" =>
        /\ DepthMaskFollowsWriteDepth
        /\ ~IsOitSubPass =>
              \A k \in DrawsOf(glLog, renderables, TRUE), b \in BlendEnables(glLog) : k < b

\* C28: a drawable with a render mode is drawn with face culling enabled, winding
\* CW and cull face BACK whatever its double-sided and flip-sided defines; depth
\* testing is disabled and the depth mask false exactly when its render mode is
\* 'volume' or fragDepth is missing, and otherwise depth testing is enabled and the
\* depth mask is its writeDepth.
C28_DirectVolumeCullAndDepth ==
    call.op = "render" =>
        \A k \in Draws(glLog) :
            LET r == renderables[glLog[k].r]
            IN r.dRenderMode # "undef" =>
                  /\ EstablishedAt(glLog, k, "CULL_FACE", TRUE)
                  /\ EstablishedAt(glLog, k, "frontFace", "CW")
                  /\ EstablishedAt(glLog, k, "cullFace", "BACK")
                  /\ IF r.dRenderMode = "volume" \/ ~ext.fragDepth
                     THEN /\ EstablishedAt(glLog, k, "DEPTH_TEST", FALSE)
                          /\ EstablishedAt(glLog, k, "depthMask", FALSE)
                     ELSE /\ EstablishedAt(glLog, k, "DEPTH_TEST", TRUE)
                          /\ EstablishedAt(glLog, k, "depthMask", r.writeDepth)

\* C28 witness: with fragDepth present, a flip-sided mesh was drawn and after it a
\* double- and flip-sided isosurface drawable that does not write depth: culling
\* is on again with cull face BACK, depth testing on, depth mask off
C28_Witness ==
    /\ call.op = "render" /\ ext.fragDepth
    /\ Len(renderables) = 2
    /\ renderables[1].dRenderMode = "undef"
    /\ renderables[2].dRenderMode = "isosurface"
    /\ renderables[2].dDoubleSided = "true" /\ renderables[2].dFlipSided = "true"
    /\ ~renderables[2].writeDepth
    /\ \E j \in Draws(glLog), k \in Draws(glLog) :
          /\ glLog[j].r = 1 /\ glLog[k].r = 2 /\ j < k
          /\ EstablishedAt(glLog, j, "CULL_FACE", FALSE)
          /\ EstablishedAt(glLog, j, "cullFace", "FRONT")
          /\ EstablishedAt(glLog, k, "CULL_FACE", TRUE)
          /\ EstablishedAt(glLog, k, "cullFace", "BACK")
          /\ EstablishedAt(glLog, k, "DEPTH_TEST", TRUE)
          /\ EstablishedAt(glLog, k, "depthMask", FALSE)

\* the four clip cells of globalUniforms
ClipCells(cells) == [n \in ClipUniforms |-> cells[n]]

\* C29: a setProps whose clip is deep-equal to the current one leaves the clip
\* state (variant, count and the four arrays) and the four clip uniforms untouched;
\* the clip state changes, and the clip uniforms are updated, only in a setProps
\* whose clip differs from the current one.
C29_EqualClipLeavesClipState ==
    [][/\ (IsSetPropsOf(call', "clip") /\ call'.n[2] = p.clip) =>
             /\ clip' = clip
             /\ ClipCells(globalUniforms') = ClipCells(globalUniforms)
             /\ uniformUpdates' \cap ClipUniforms = {}
       /\ (clip' # clip \/ uniformUpdates' \cap ClipUniforms # {}) =>
             (IsSetPropsOf(call', "clip") /\ call'.n[2] # p.clip)]_vars

\* C29 witness: setProps was called with the clip of one sphere that was current
\* already, and no cell was updated
C29_Witness ==
    /\ IsSetPropsOf(call, "clip")
    /\ call.n[2] = SphereClipProps /\ p.clip = SphereClipProps
    /\ clip.count = 1 /\ clip.variant = "pixel"
    /\ globalUniforms.uClipObjectType = clip.type
    /\ uniformUpdates = {}

\* C30: every render call issues exactly one flush, as the last call of all, after
\* every draw and after the resolve quad, in every variant and branch and also
\* when it draws nothing.
C30_RenderEndsWithOneFlush ==
    call.op = "render" =>
        /\ Cardinality(CallsOf(glLog, "flush")) = 1
        /\ glLog[Len(glLog)].op = "flush"
        /\ \A k \in Draws(glLog) \cup CallsOf(glLog, "drawQuad") : k < Len(glLog)

\* C30 witness: an OIT sub-pass on a scene whose drawables are all skipped drew
\* only the resolve quad and then flushed
C30_Witness ==
    /\ IsOitSubPass
    /\ Len(renderables) > 0
    /\ Draws(glLog) = {}
    /\ \E q \in CallsOf(glLog, "drawQuad") : q = Len(glLog) - 1
    /\ glLog[Len(glLog)].op = "flush"

\* the largest position of S, a set of positions of a log; 0 when there is none
LastOf(S) == IF S = {} THEN 0 ELSE CHOOSE x \in S : \A y \in S : y <= x
\* the positions before k at which the uploaded uniforms stop being current for
\* the program bound at k: another program is made the bound one, or the call
\* switches into the accumulation pass (the colour clear of the renderer's own
\* framebuffer, after which uRenderWboit is updated)
UploadEvents(log, k) ==
    {j \in 1..(k - 1) : \/ log[j].op = "use"
                        \/ log[j].op = "clear" /\ log[j].s = "COLOR"}
\* the uploads made before position k and since the later of the start of the
\* call and the last such event
UploadsSince(log, k) ==
    {j \in CallsOf(log, "setUniforms") : LastOf(UploadEvents(log, k)) < j /\ j < k}
\* the program bound at position k of a log issued from a state where program
\* before was bound
BoundAt(log, k, before) ==
    LET uses == {j \in CallsOf(log, "use") : j < k}
    IN IF uses = {} THEN before ELSE log[LastOf(uses)].set.currentProgramId

\* C31: at every draw of a render the program of the drawn drawable is the bound
\* program, and exactly one upload of the global uniforms has been made, to that
\* program, since the later of the start of the call or the switch into the
\* accumulation pass and the moment the program became the bound one; no upload
\* is made when one has been made since that moment already, so drawables that
\* follow one another on one program cause one upload.
C31_UniformsUploadedOncePerBinding ==
    [][call'.op = "render" =>
          /\ \A k \in Draws(glLog') :
                LET program == ProgramId(renderables[glLog'[k].r], call'.variant)
                IN /\ BoundAt(glLog', k, state.currentProgramId) = program
                   /\ Cardinality(UploadsSince(glLog', k)) = 1
                   /\ \A j \in UploadsSince(glLog', k) :
                         ProgramId(renderables[glLog'[j].r], call'.variant) = program
          /\ \A j \in CallsOf(glLog', "setUniforms") : UploadsSince(glLog', j) = {}]_vars

\* C31 witness: a render of two drawables on one program, the program being bound
\* already by the render before: the program was not used again and one upload
\* served both draws
C31_Witness ==
    /\ call.op = "render"
    /\ Len(renderables) = 2
    /\ renderables[1].program = renderables[2].program
    /\ Cardinality(Draws(glLog)) = 2
    /\ CallsOf(glLog, "use") = {}
    /\ Cardinality(CallsOf(glLog, "setUniforms")) = 1

\* the number of draw calls the log holds for drawable i
DrawCount(log, i) == Cardinality({k \in Draws(log) : log[k].r = i})

\* C32: in a colour render that is no OIT accumulation pass every visible drawable
\* is drawn exactly once and no invisible drawable is drawn, whatever its opaque,
\* writeDepth, pickable and colour-only flags.
C32_BatchesPartitionScene ==
    (call.op = "render" /\ call.variant = "color" /\ ~IsOitSubPass) =>
        \A i \in 1..Len(renderables) :
            DrawCount(glLog, i) = IF renderables[i].visible THEN 1 ELSE 0

\* C32 witness: a colour render without OIT of an opaque drawable that writes depth
\* listed after a non-opaque one that does not: each was drawn once
C32_Witness ==
    /\ call.op = "render" /\ call.variant = "color" /\ ~IsOitSubPass
    /\ Len(renderables) = 2
    /\ renderables[1].visible /\ ~renderables[1].opaque /\ ~renderables[1].writeDepth
    /\ renderables[2].visible /\ renderables[2].opaque /\ renderables[2].writeDepth
    /\ DrawCount(glLog, 1) = 1 /\ DrawCount(glLog, 2) = 1

\* the four settings render makes before anything else, in source order
StartSettings ==
    << [SCISSOR_TEST |-> TRUE], [BLEND |-> FALSE], [colorMask |-> TRUE], [DEPTH_TEST |-> TRUE] >>
\* the calls of a log that draw or clear
DrawsAndClears(log) == Draws(log) \cup CallsOf(log, "drawQuad") \cup CallsOf(log, "clear")

\* C33: every render first enables the scissor test, disables blending, enables all
\* colour-mask channels and enables depth testing, before its bind, its clear and
\* its first draw, whatever state the call before left; scissor test and colour
\* mask stay so for every draw and clear of the call; blending is on at a draw only
\* where the call itself enabled it after that, and outside the OIT sub-pass every
\* opaque drawable is drawn with blending off.
C33_RenderStartsFromResetState ==
    call.op = "render" =>
        /\ Len(glLog) > Len(StartSettings)
        /\ \A k \in 1..Len(StartSettings) : glLog[k].set = StartSettings[k]
        /\ \A k \in DrawsAndClears(glLog) :
              /\ k > Len(StartSettings)
              /\ EstablishedAt(glLog, k, "SCISSOR_TEST", TRUE)
              /\ EstablishedAt(glLog, k, "colorMask", TRUE)
              /\ \/ EstablishedAt(glLog, k, "BLEND", FALSE)
                 \/ \E b \in BlendEnables(glLog) : Len(StartSettings) < b /\ b < k
        /\ ~IsOitSubPass =>
              \A k \in DrawsOf(glLog, renderables, TRUE) : EstablishedAt(glLog, k, "BLEND", FALSE)

\* C33 witness: a depth render without clear, made after an OIT sub-pass had left
\* blending enabled with its resolve factors, drew with blending disabled
C33_Witness ==
    /\ call.op = "render" /\ call.variant = "depth" /\ ~call.clear
    /\ state.blendFunc = <<"ONE_MINUS_SRC_ALPHA", "SRC_ALPHA", "ZERO", "ONE">>
    /\ state.clearColor = <<0, 0, 0, 255>>
    /\ ~state.BLEND
    /\ \E k \in DrawsOf(glLog, renderables, TRUE) : EstablishedAt(glLog, k, "BLEND", FALSE)

\* C34: setProps leaves the coefficient group of the style the renderer was
\* constructed with as it was: the object props.style gave at construction keeps
\* its name and the coefficients the caller set.
C34_SetPropsKeepsCallerGroup ==
    [][call'.op = "setProps" => createdStyle' = createdStyle]_vars

\* C34 witness: a renderer constructed with a custom group, after setProps with
\* the named style flat: the group of the style object read at construction holds
\* the coefficients of flat, which no custom group of the callers holds
C34_Witness ==
    /\ IsSetPropsOf(call, "style")
    /\ call.n[2].name = "flat"
    /\ createdStyle.name = "custom"
    /\ createdStyle.params = NamedStyle("flat")
    /\ createdStyle.params \notin CustomParams

\* C34 where it holds: the style object of a renderer constructed with a named
\* style is never written
NamedStyleObjectKept ==
    [][~StyleIsParamsOf(createdStyle) => createdStyle' = createdStyle]_vars

\* the uploads of the global uniforms made before position k of the log
UploadsBefore(log, k) == {j \in CallsOf(log, "setUniforms") : j < k}
\* the value of uRenderWboit the last of them carried
UploadedRenderWboit(log, k) == log[LastOf(UploadsBefore(log, k))].n[1]
\* the value uRenderWboit has in a pass: 1 in the accumulation pass, 0 otherwise
RenderWboitOfPass == IF IsOitSubPass THEN 1 ELSE 0

\* C35: at every draw of a render the bound program has been given uRenderWboit,
\* as 1 when the draw belongs to an OIT accumulation pass and as 0 in every other
\* pass (ordered blending, the colour pass outside the sub-pass, pick, depth),
\* also when the render before was an accumulation pass; after the call the cell
\* holds that same value.
C35_RenderWboitOnlyInAccumulation ==
    call.op = "render" =>
        /\ \A k \in Draws(glLog) :
              /\ UploadsBefore(glLog, k) # {}
              /\ UploadedRenderWboit(glLog, k) = RenderWboitOfPass
        /\ \A j \in CallsOf(glLog, "setUniforms") : glLog[j].n = <<RenderWboitOfPass>>
        /\ uRenderWboit = RenderWboitOfPass

\* C35 witness: a depth render, made after an OIT sub-pass had left its resolve
\* blend factors, drew two drawables on two programs, each given uRenderWboit 0
C35_Witness ==
    /\ call.op = "render" /\ call.variant = "depth"
    /\ enableWboit
    /\ state.blendFunc = <<"ONE_MINUS_SRC_ALPHA", "SRC_ALPHA", "ZERO", "ONE">>
    /\ uRenderWboit = 0
    /\ Cardinality(Draws(glLog)) = 2
    /\ Cardinality(CallsOf(glLog, "setUniforms")) = 2
    /\ \A k \in Draws(glLog) : UploadedRenderWboit(glLog, k) = 0

\* the three defines renderObject keeps on drawable r, and the values the renderer
\* has for them: the clip count, the clip variant and props.transparencyVariant
DefinesOf(r) == <<r.dClipObjectCount, r.dClipVariant, r.dTransparencyVariant>>
CurrentDefines == <<clip.count, clip.variant, p.transparencyVariant>>
\* the calls of r.update() the log holds for drawable i
UpdatesOf(log, i) == {k \in CallsOf(log, "update") : log[k].r = i}

\* C36: a render leaves on every drawable it draws the clip count, the clip
\* variant and the transparency variant the renderer has; it invokes the
\* drawable's update, once and before the draw, exactly when one of the three
\* differed; it leaves the defines of a drawable it does not draw as they were and
\* does not update it; and no other call touches a drawable.
C36_DefinesFollowPropsAtDraw ==
    [][/\ call'.op = "render" =>
             \A i \in 1..Len(renderables) :
                 IF DrawCount(glLog', i) > 0
                 THEN /\ DefinesOf(renderables'[i]) = CurrentDefines'
                      /\ Cardinality(UpdatesOf(glLog', i)) =
                            (IF DefinesOf(renderables[i]) # CurrentDefines THEN 1 ELSE 0)
                      /\ \A u \in UpdatesOf(glLog', i), d \in Draws(glLog') :
                            glLog'[d].r = i => u < d
                 ELSE /\ renderables'[i] = renderables[i]
                      /\ UpdatesOf(glLog', i) = {}
       /\ call'.op # "render" => renderables' = renderables]_vars

\* C36 witness: after setProps changed the transparency variant and the clip, a
\* render drew and updated the first drawable, which now carries both, and left
\* the invisible second one with the defines it was made with
C36_Witness ==
    /\ call.op = "render"
    /\ p.transparencyVariant = "multi" /\ clip.count = 1 /\ clip.variant = "pixel"
    /\ Len(renderables) = 2
    /\ renderables[1].visible /\ ~renderables[2].visible
    /\ DrawCount(glLog, 1) = 1
    /\ Cardinality(UpdatesOf(glLog, 1)) = 1
    /\ DefinesOf(renderables[1]) = <<1, "pixel", "multi">>
    /\ DefinesOf(renderables[2]) = <<0, "instance", "single">>

====
